-------------------------- MODULE AppConversations --------------------------
(***************************************************************************)
(* Conversations of the V1 app server and the sandboxes they share:        *)
(* openhands/app_server/app_conversation/                                  *)
(* live_status_app_conversation_service.py, sandbox/sandbox_service.py and *)
(* docker_sandbox_service.py, event_callback/webhook_router.py, and the    *)
(* deletion in openhands/server/routes/manage_conversations.py.            *)
(*                                                                         *)
(* A start picks a sandbox of the user or creates one, waits for it,       *)
(* prepares the repository, posts the conversation to the agent server in  *)
(* the sandbox and stores what the app server knows of it.  The agent      *)
(* server reports by a web hook, which reads and stores the same row.  A   *)
(* deletion removes the sub-conversations, the row and then, perhaps, the  *)
(* sandbox.  Each is a coroutine of its own with its own database session; *)
(* an action is the code between two awaits, neighbours that read only     *)
(* being one step.                                                         *)
(* Sandboxes are numbered in the order of creation.                        *)
(***************************************************************************)
EXTENDS Integers, Sequences, FiniteSets

CONSTANTS
    Convs,       \* conversations; each is started at most once
    MaxPerBox,   \* max_num_conversations_per_sandbox
    MaxBoxes,    \* max_num_sandboxes
    MaxCreated,  \* bound: sandboxes created
    MaxOps       \* bound: pauses, resumes and deletions by the user

ASSUME AppAssumption ==
    /\ MaxPerBox \in Nat /\ MaxCreated \in Nat /\ MaxOps \in Nat
    /\ MaxBoxes \in Nat \ {0, 1}

VARIABLES
    boxes,   \* the sandboxes: status and the conversations their agent server has
    infos,   \* the stored AppConversationInfo
    start,   \* _start_app_conversation of each conversation
    parent,  \* the conversation it was started as a sub-conversation of, or itself
    saved,   \* the stored AppConversationStartTask
    hook,    \* on_conversation_update of each conversation
    del,     \* the deletion of each conversation
    half,    \* conversations whose deletion, or their parent's, met their start or failed
    overtaken, \* conversations whose row was stored while a web hook had read an older one
    ops      \* counter of the bounded steps

appVars == <<boxes, infos, start, parent, saved, hook, del, half, overtaken, ops>>

BoxIds == 1 .. Len(boxes)
NoInfo == [box |-> 0, full |-> FALSE]
NoTask == [status |-> "none", linked |-> FALSE]
NoHook == [box |-> 0, full |-> FALSE]
NoDelete == [pc |-> "idle", box |-> 0, shared |-> FALSE, subs |-> {}, rows |-> {}]

RunningBoxes == {b \in BoxIds : boxes[b].status = "running"}
InBox(b) == {v \in Convs : infos[v].box = b}

(* get_sub_conversation_ids, by the stored rows; a stub names no parent. *)
SubsOf(v) == {u \in Convs \ {v} : parent[u] = v /\ infos[u].full}

-----------------------------------------------------------------------------
(* Sandboxes.                                                              *)

(* pause_old_sandboxes: what answers is paused, the oldest first, until    *)
(* one less than the limit is left.                                        *)
AfterPauseOld ==
    LET excess == Cardinality(RunningBoxes) - (MaxBoxes - 1)
        old == {b \in RunningBoxes : Cardinality({x \in RunningBoxes : x < b}) < excess}
    IN  [b \in BoxIds |-> IF b \in old THEN [boxes[b] EXCEPT !.status = "paused"] ELSE boxes[b]]

(* The agent server in a container answers. *)
BoxBoots(b) ==
    /\ boxes[b].status = "booting"
    /\ boxes' = [boxes EXCEPT ![b].status = "running"]
    /\ UNCHANGED <<infos, start, saved, hook, del, half, overtaken, ops, parent>>

(* pause_sandbox and resume_sandbox, called by routes. *)
PauseBox(b) ==
    /\ boxes[b].status = "running" /\ ops < MaxOps
    /\ boxes' = [boxes EXCEPT ![b].status = "paused"]
    /\ ops' = ops + 1
    /\ UNCHANGED <<infos, start, saved, hook, del, half, overtaken, parent>>

ResumeBox(b) ==
    /\ boxes[b].status = "paused" /\ ops < MaxOps
    /\ boxes' = [AfterPauseOld EXCEPT ![b].status = "running"]
    /\ ops' = ops + 1
    /\ UNCHANGED <<infos, start, saved, hook, del, half, overtaken, parent>>

-----------------------------------------------------------------------------
(* Starting.                                                               *)

SavedTask(status, linked) == [status |-> status, linked |-> linked]

(* A step that saves the start task with the status it moves to. *)
AdvanceStart(v, pc, b, status) ==
    /\ start' = [start EXCEPT ![v] = [pc |-> pc, box |-> b]]
    /\ saved' = [saved EXCEPT ![v] = SavedTask(status, saved[v].linked)]

(* A parent that is named must be stored. *)
StartRequested(v) ==
    /\ start[v].pc = "idle"
    /\ AdvanceStart(v, "find", 0, "WORKING")
    /\ \/ UNCHANGED parent
       \/ \E p \in Convs : infos[p].box # 0 /\ parent' = [parent EXCEPT ![v] = p]
    /\ UNCHANGED <<boxes, infos, hook, del, half, overtaken, ops>>

(* _find_running_sandbox_for_user: one that has room by the stored rows,   *)
(* which of them is up to the strategy.                                    *)
PickBox(v, b) ==
    /\ start[v].pc = "find" /\ parent[v] = v
    /\ b \in RunningBoxes /\ Cardinality(InBox(b)) < MaxPerBox
    /\ AdvanceStart(v, "wait", b, "WAITING_FOR_SANDBOX")
    /\ UNCHANGED <<boxes, infos, hook, del, half, overtaken, ops, parent>>

(* None is found, the strategy is NO_GROUPING, or the search raises:       *)
(* start_sandbox, up to the call of docker, has others paused ...          *)
MakeRoom(v) ==
    /\ start[v].pc = "find" /\ parent[v] = v
    /\ start' = [start EXCEPT ![v].pc = "create"]
    /\ boxes' = AfterPauseOld
    /\ UNCHANGED <<infos, saved, hook, del, half, overtaken, ops, parent>>

(* ... and a container is run. *)
CreateBox(v) ==
    /\ start[v].pc = "create" /\ Len(boxes) < MaxCreated
    /\ boxes' = Append(boxes, [status |-> "booting", held |-> {}])
    /\ AdvanceStart(v, "wait", Len(boxes) + 1, "WAITING_FOR_SANDBOX")
    /\ UNCHANGED <<infos, hook, del, half, overtaken, ops, parent>>

(* A start that names its sandbox, or inherits it from the parent          *)
(* conversation; a paused one is resumed.                                  *)
TakeBox(v, b) ==
    /\ start[v].pc = "find" /\ boxes[b].status # "gone"
    /\ boxes' = IF boxes[b].status = "paused"
                THEN [AfterPauseOld EXCEPT ![b].status = "running"] ELSE boxes
    /\ AdvanceStart(v, "wait", b, "WAITING_FOR_SANDBOX")
    /\ UNCHANGED <<infos, hook, del, half, overtaken, ops, parent>>

(* wait_for_sandbox_running, and the four stages of run_setup_scripts. *)
Prepare(v) ==
    /\ start[v].pc = "wait" /\ boxes[start[v].box].status = "running"
    /\ AdvanceStart(v, "post", start[v].box, "PREPARING")
    /\ UNCHANGED <<boxes, infos, hook, del, half, overtaken, ops, parent>>

(* The POST to the agent server; its answer may be lost. *)
Post(v) ==
    /\ start[v].pc = "post" /\ boxes[start[v].box].status = "running"
    /\ boxes' = [boxes EXCEPT ![start[v].box].held = @ \cup {v}]
    /\ \/ AdvanceStart(v, "save", start[v].box, "STARTING_CONVERSATION")
       \/ AdvanceStart(v, "done", start[v].box, "ERROR")
    /\ UNCHANGED <<infos, hook, del, half, overtaken, ops, parent>>

SaveInfo(v) ==
    /\ start[v].pc = "save"
    /\ infos' = [infos EXCEPT ![v] = [box |-> start[v].box, full |-> TRUE]]
    /\ start' = [start EXCEPT ![v].pc = "callbacks"]
    /\ overtaken' = IF hook[v] = NoHook THEN overtaken ELSE overtaken \cup {v}
    /\ UNCHANGED <<boxes, saved, hook, del, half, ops, parent>>

(* Faulty variant: the task is READY before the row is stored. *)
BecomeReadyAtOnce(v) ==
    /\ start[v].pc \in {"save", "callbacks"}
    /\ start' = [start EXCEPT ![v].pc = "pending"]
    /\ saved' = [saved EXCEPT ![v] = SavedTask("READY", TRUE)]
    /\ UNCHANGED <<boxes, infos, hook, del, half, overtaken, ops, parent>>

(* The callbacks and the security analyzer are set, the task is READY. *)
BecomeReady(v) ==
    /\ start[v].pc = "callbacks"
    /\ start' = [start EXCEPT ![v].pc = "pending"]
    /\ saved' = [saved EXCEPT ![v] = SavedTask("READY", TRUE)]
    /\ UNCHANGED <<boxes, infos, hook, del, half, overtaken, ops, parent>>

(* _process_pending_messages (see PendingMessages). *)
EndStart(v) ==
    /\ start[v].pc = "pending"
    /\ start' = [start EXCEPT ![v].pc = "done"]
    /\ UNCHANGED <<boxes, infos, saved, hook, del, half, overtaken, ops, parent>>

(* Any exception on the way, a sandbox that is gone and one that does not  *)
(* answer in time; after READY too.                                        *)
ConversationFails(v) ==
    /\ start[v].pc \notin {"idle", "done"}
    /\ start' = [start EXCEPT ![v].pc = "done"]
    /\ saved' = [saved EXCEPT ![v] = SavedTask("ERROR", start[v].pc = "pending")]
    /\ UNCHANGED <<boxes, infos, hook, del, half, overtaken, ops, parent>>

-----------------------------------------------------------------------------
(* The web hook of the agent server: on_conversation_update.               *)

(* valid_conversation: what is stored by now, or a stub. *)
HookReads(v, b) ==
    /\ hook[v] = NoHook
    /\ b \in RunningBoxes /\ v \in boxes[b].held
    /\ hook' = [hook EXCEPT ![v] = [box |-> b, full |-> infos[v].full]]
    /\ UNCHANGED <<boxes, infos, start, saved, del, half, overtaken, ops, parent>>

HookSaves(v) ==
    /\ hook[v] # NoHook
    /\ infos' = [infos EXCEPT ![v] = hook[v]]
    /\ hook' = [hook EXCEPT ![v] = NoHook]
    /\ UNCHANGED <<boxes, start, saved, del, half, overtaken, ops, parent>>

-----------------------------------------------------------------------------
(* Deleting.                                                               *)

(* _try_delete_v1_conversation: others in the sandbox, by the stored rows; *)
(* then delete_app_conversation looks for the sub-conversations, unless it *)
(* gives up before.                                                        *)
DeleteBegins(v) ==
    /\ del[v].pc = "idle" /\ infos[v].box # 0 /\ ops < MaxOps
    /\ LET task == [pc |-> "subs", box |-> infos[v].box,
                    shared |-> Cardinality(InBox(infos[v].box)) > 1,
                    subs |-> SubsOf(v), rows |-> {}]
       IN  \/ /\ del' = [del EXCEPT ![v] = task]
              /\ half' = IF start[v].pc = "done" THEN half ELSE half \cup {v}
           \/ /\ del' = [del EXCEPT ![v] = [task EXCEPT !.pc = "count", !.subs = {}]]
              /\ half' = half \cup {v}
    /\ ops' = ops + 1
    /\ UNCHANGED <<boxes, infos, start, saved, hook, overtaken, parent>>

(* _delete_from_agent_server: a failure changes nothing. *)
LeavesAgentServer(v, b) ==
    \/ /\ b \in RunningBoxes
       /\ boxes' = [boxes EXCEPT ![b].held = @ \ {v}]
    \/ UNCHANGED boxes

(* _delete_sub_conversations, one of them, in a shared sandbox too.  Its   *)
(* rows are gone with the commit; an error is logged and the next follows. *)
DeleteSub(v, u) ==
    /\ del[v].pc = "subs" /\ u \in del[v].subs
    /\ LeavesAgentServer(u, infos[u].box)
    /\ \/ /\ del' = [del EXCEPT ![v].subs = @ \ {u}, ![v].rows = @ \cup {u}]
          /\ half' = IF start[u].pc = "done" THEN half ELSE half \cup {u}
       \/ /\ del' = [del EXCEPT ![v].subs = @ \ {u}]
          /\ half' = half \cup {u}
    /\ UNCHANGED <<infos, start, saved, hook, overtaken, ops, parent>>

DeleteFromAgentServer(v) ==
    /\ del[v].pc = "subs" /\ del[v].subs = {}
    /\ del' = [del EXCEPT ![v].pc = "rows"]
    /\ IF del[v].shared THEN UNCHANGED boxes ELSE LeavesAgentServer(v, del[v].box)
    /\ UNCHANGED <<infos, start, saved, hook, half, overtaken, ops, parent>>

RowsGone(I, T) ==
    /\ infos' = [w \in Convs |-> IF w \in I THEN NoInfo ELSE infos[w]]
    /\ saved' = [w \in Convs |-> IF w \in T /\ saved[w].linked THEN NoTask ELSE saved[w]]

(* _delete_from_database and the commit, of what the transaction holds by  *)
(* then: an exception may come before the row or the task is deleted.      *)
DeleteRows(v) ==
    /\ del[v].pc = "rows"
    /\ del' = [del EXCEPT ![v].pc = "count", ![v].rows = {}]
    /\ LET rows == del[v].rows
       IN  \/ RowsGone(rows \cup {v}, rows \cup {v}) /\ UNCHANGED half
           \/ \E I \in {rows, rows \cup {v}} : RowsGone(I, rows) /\ half' = half \cup {v}
    /\ UNCHANGED <<boxes, start, hook, overtaken, ops, parent>>

(* Nothing is committed: the commit fails, or the request is cancelled or  *)
(* the server stops before it.                                             *)
DeleteAborted(v) ==
    /\ del[v].pc \in {"subs", "rows"}
    /\ del' = [del EXCEPT ![v] = NoDelete]
    /\ half' = half \cup del[v].rows \cup {v}
    /\ UNCHANGED <<boxes, infos, start, saved, hook, overtaken, ops, parent>>

(* _get_num_conversations_in_sandbox: what the agent server has; 0 when    *)
(* the sandbox has no URL, as it is not running, and when asking fails.    *)
CountRemaining(v) ==
    /\ del[v].pc = "count"
    /\ LET b == del[v].box
       IN  \/ /\ b \in RunningBoxes
              /\ del' = [del EXCEPT ![v] =
                            IF boxes[b].held = {} THEN [@ EXCEPT !.pc = "remove"] ELSE NoDelete]
           \/ del' = [del EXCEPT ![v].pc = "remove"]
    /\ UNCHANGED <<boxes, infos, start, saved, hook, half, overtaken, ops, parent>>

(* delete_sandbox *)
RemoveBox(v) ==
    /\ del[v].pc = "remove"
    /\ boxes' = [boxes EXCEPT ![del[v].box] = [status |-> "gone", held |-> {}]]
    /\ del' = [del EXCEPT ![v] = NoDelete]
    /\ UNCHANGED <<infos, start, saved, hook, half, overtaken, ops, parent>>

-----------------------------------------------------------------------------
(* The user has a sandbox already. *)
AppInit ==
    /\ boxes = <<[status |-> "running", held |-> {}]>>
    /\ infos = [v \in Convs |-> NoInfo]
    /\ start = [v \in Convs |-> [pc |-> "idle", box |-> 0]]
    /\ saved = [v \in Convs |-> NoTask]
    /\ hook = [v \in Convs |-> NoHook]
    /\ del = [v \in Convs |-> NoDelete]
    /\ parent = [v \in Convs |-> v]
    /\ half = {} /\ overtaken = {}
    /\ ops = 0

StartStep(v) ==
    \/ \E b \in BoxIds : PickBox(v, b) \/ TakeBox(v, b)
    \/ MakeRoom(v) \/ CreateBox(v) \/ Prepare(v) \/ Post(v)
    \/ SaveInfo(v) \/ BecomeReady(v) \/ EndStart(v) \/ ConversationFails(v)

DeleteStep(v) ==
    \/ \E u \in del[v].subs : DeleteSub(v, u)
    \/ DeleteFromAgentServer(v) \/ DeleteRows(v) \/ DeleteAborted(v)
    \/ CountRemaining(v) \/ RemoveBox(v)

AppNext ==
    \/ \E v \in Convs : StartRequested(v) \/ StartStep(v) \/ DeleteBegins(v) \/ DeleteStep(v)
    \/ \E v \in Convs : HookSaves(v) \/ \E b \in BoxIds : HookReads(v, b)
    \/ \E b \in BoxIds : BoxBoots(b) \/ PauseBox(b) \/ ResumeBox(b)

AppSpec == AppInit /\ [][AppNext]_appVars

-----------------------------------------------------------------------------
(* Properties.                                                             *)

Statuses ==
    {"WORKING", "WAITING_FOR_SANDBOX", "PREPARING", "STARTING_CONVERSATION", "READY", "ERROR"}

BoxType == [status : {"booting", "running", "paused", "gone"}, held : SUBSET Convs]
InfoType == [box : 0 .. Len(boxes), full : BOOLEAN]
StartTaskType == [pc : {"idle", "find", "create", "wait", "post", "save", "callbacks", "pending",
                        "done"}, box : 0 .. Len(boxes)]
SavedType == [status : Statuses \cup {"none"}, linked : BOOLEAN]
DeleteType == [pc : {"idle", "subs", "rows", "count", "remove"}, box : 0 .. Len(boxes),
               shared : BOOLEAN, subs : SUBSET Convs, rows : SUBSET Convs]

(* The type invariant: rows, hooks and deletions point to sandboxes. *)
AppTypeOK ==
    /\ boxes \in Seq(BoxType)
    /\ infos \in [Convs -> InfoType] /\ hook \in [Convs -> InfoType]
    /\ start \in [Convs -> StartTaskType] /\ saved \in [Convs -> SavedType]
    /\ del \in [Convs -> DeleteType]
    /\ parent \in [Convs -> Convs]
    /\ half \subseteq Convs /\ overtaken \subseteq Convs
    /\ ops \in 0 .. MaxOps

(* Being deleted, by itself or with its parent. *)
Deleting(v) == del[v].pc # "idle" \/ \E p \in Convs : v \in del[p].rows

(* What a client learns from a READY task holds: the conversation is       *)
(* stored, with the sandbox whose agent server has it, however web hooks   *)
(* and deletions of others come in between.  Excepted are a conversation   *)
(* that is being deleted, one whose deletion, or its parent's, came before *)
(* its start was over or failed on the way, and a sandbox that was deleted *)
(* (_start_app_conversation stores the row before the task,                *)
(* _delete_from_database deletes both, _delete_sub_conversations deletes   *)
(* what may still be starting).                                            *)
ReadyIsStored ==
    \A v \in Convs : saved[v].status = "READY" /\ ~Deleting(v) /\ v \notin half =>
        /\ infos[v].box = start[v].box
        /\ \/ v \in boxes[start[v].box].held
           \/ boxes[start[v].box].status = "gone"

(* The web hook preserves the metadata a start has stored (the repository, *)
(* the trigger, the parent: on_conversation_update), however it interleaves *)
(* with the start and with other hooks, unless it had read the row before  *)
(* the start stored it and stores it after.                                *)
MetadataPreserved ==
    \A v \in Convs :
        /\ saved[v].status = "READY"
        /\ ~Deleting(v) /\ v \notin half \cup overtaken
        => infos[v].full

(* A READY task keeps what it promises to the client: its conversation is  *)
(* stored, where it runs, with the metadata it was started with.           *)
ReadyKeepsPromise == ReadyIsStored /\ MetadataPreserved
=============================================================================
