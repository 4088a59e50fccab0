----------------------------- MODULE MCServices -----------------------------
(***************************************************************************)
(* Model checking, in one run, of the services around a conversation: what *)
(* a tool call goes through, and the accounts of the hosted server.  The   *)
(* parts share no state, so every behaviour exercises one of them, chosen  *)
(* at the start by focus, and leaves the others in their initial states.   *)
(***************************************************************************)
EXTENDS Harness, DeviceFlow, Orgs, Billing, ProviderTokens, WebHooks, BashSession, Condensing,
        PortLocks

VARIABLE focus  \* the part this behaviour exercises

servicesVars == <<focus, harnessVars, deviceVars, orgVars, billingVars, providerVars,
                  webHookVars, bashVars, condensingVars, portVars>>

Ttl1 == {Never, 1}

\* The identifiers of all the parts are drawn from two pairs of model values, and nothing
\* tells the two values of a pair apart.
Symmetry == Permutations(Calls) \cup Permutations(Tokens)

ServicesInit ==
    /\ focus \in {"harness", "device", "orgs", "billing", "provider", "webhooks", "bash",
                  "condensing", "ports"}
    /\ HarnessInit /\ DeviceInit /\ OrgsInit /\ BillingInit
    /\ ProviderInit /\ WebHookInit /\ BashInit /\ CondensingInit /\ PortInit

ServicesNext ==
    \/ focus = "harness" /\ HarnessNext
       /\ UNCHANGED <<focus, deviceVars, orgVars, billingVars, providerVars, webHookVars,
                      bashVars, condensingVars, portVars>>
    \/ focus = "device" /\ DeviceNext
       /\ UNCHANGED <<focus, harnessVars, orgVars, billingVars, providerVars, webHookVars,
                      bashVars, condensingVars, portVars>>
    \/ focus = "orgs" /\ OrgsNext
       /\ UNCHANGED <<focus, harnessVars, deviceVars, billingVars, providerVars, webHookVars,
                      bashVars, condensingVars, portVars>>
    \/ focus = "billing" /\ BillingNext
       /\ UNCHANGED <<focus, harnessVars, deviceVars, orgVars, providerVars, webHookVars,
                      bashVars, condensingVars, portVars>>
    \/ focus = "provider" /\ ProviderNext
       /\ UNCHANGED <<focus, harnessVars, deviceVars, orgVars, billingVars, webHookVars,
                      bashVars, condensingVars, portVars>>
    \/ focus = "webhooks" /\ WebHookNext
       /\ UNCHANGED <<focus, harnessVars, deviceVars, orgVars, billingVars, providerVars,
                      bashVars, condensingVars, portVars>>
    \/ focus = "bash" /\ BashNext
       /\ UNCHANGED <<focus, harnessVars, deviceVars, orgVars, billingVars, providerVars,
                      webHookVars, condensingVars, portVars>>
    \/ focus = "condensing" /\ CondensingNext
       /\ UNCHANGED <<focus, harnessVars, deviceVars, orgVars, billingVars, providerVars,
                      webHookVars, bashVars, portVars>>
    \/ focus = "ports" /\ PortNext
       /\ UNCHANGED <<focus, harnessVars, deviceVars, orgVars, billingVars, providerVars,
                      webHookVars, bashVars, condensingVars>>

ServicesSpec == ServicesInit /\ [][ServicesNext]_servicesVars

(* Every part's state is well typed (the bounds of the batches and         *)
(* counters the code keeps are part of it).                                *)
ServicesTypeOK ==
    /\ HarnessTypeOK /\ DeviceTypeOK /\ OrgsTypeOK /\ BillingTypeOK
    /\ ProviderTypeOK /\ WebHookTypeOK /\ BashTypeOK /\ CondensingTypeOK
    /\ PortTypeOK
=============================================================================
