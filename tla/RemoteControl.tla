---------------------------- MODULE RemoteControl ----------------------------
(* The RPC methods that act on the queue, the QueueHandle they go through  *)
(* and the command mailbox of the coordinator.  A call becomes one command *)
(* or several; a command is sent, waits in the mailbox, is handled to its  *)
(* end, and its reply, where it has one, goes back by a channel of its own *)
(* that is lost with the command when the coordinator ends.                *)
EXTENDS Integers, SequencesExt

CONSTANTS
    Clients,        \* who calls: RPC requests, the post-processor, the task that stops the program
    Requests,       \* calls they may make: [method, command, param, ids]
    CommandCap,     \* places of the mailbox
    QueuedIds, HistoryIds,  \* sequences: what the queue and the history hold
    MaxId,          \* bound on the ids given out
    NoRequest, NoContent

Methods == {"editqueue", "append", "pausedownload", "resumedownload", "shutdown", "history",
            "listgroups", "finish_post_processing"}

ASSUME RemoteAssumption == \A r \in Requests : r.method \in Methods /\ r.ids \in Seq(Nat)

VARIABLES
    mailbox,        \* sequence of [client, name, arg, ids]
    alive,          \* run() has not returned
    nzb_list, nzb_history, next_id,
    info,           \* [1..MaxId -> what the coordinator keeps of an NZB]
    rpc_paused,     \* PauseAll
    calls,          \* [Clients -> [request, left, state, reply]]
    temp_dir,       \* [file names -> content], where append writes
    saved,          \* [ids -> content], NZB files of the disk state
    served          \* ghost: [Clients -> replies of the handled commands of the call]

queueState == <<nzb_list, nzb_history, next_id, info, rpc_paused>>
remoteVars == <<mailbox, alive, queueState, calls, temp_dir, saved, served>>

Fresh == [content |-> NoContent, dup_key |-> NoContent, paused |-> FALSE,
          settings |-> NoContent, marked |-> FALSE]
Answer(kind, id) == [kind |-> kind, id |-> id]
Free == [request |-> NoRequest, left |-> <<>>, state |-> "idle", reply |-> Answer("none", 0)]

RemoteInit ==
    /\ mailbox = <<>> /\ alive = TRUE /\ rpc_paused = FALSE
    /\ nzb_list = QueuedIds /\ nzb_history = HistoryIds
    /\ next_id = Len(QueuedIds \o HistoryIds) + 1
    /\ info = [n \in 1..MaxId |-> Fresh]
    /\ calls = [c \in Clients |-> Free] /\ served = [c \in Clients |-> <<>>]
    /\ temp_dir = <<>> /\ saved = <<>>
-----------------------------------------------------------------------------
(* What an RPC method asks of the queue.                                   *)
Marks == {"HistoryMarkGood", "HistoryMarkBad", "HistoryMarkSuccess"}
HistoryCommands ==
    {"HistoryReturn", "HistoryProcess", "HistoryRedownload",
     "HistoryDelete", "HistoryFinalDelete"} \union Marks

(* Parameters are numbers for offsets; settings keep what they were given. *)
parse_edit_command(command, param) ==
    CASE command = "GroupMoveTop" -> [name |-> "Move", arg |-> -MaxId]
      [] command = "GroupMoveBottom" -> [name |-> "Move", arg |-> MaxId]
      [] command = "GroupMoveOffset" -> [name |-> "Move", arg |-> param]
      [] command \in {"GroupPause", "GroupPauseAllPars", "GroupPauseExtraPars"} ->
            [name |-> "SetPaused", arg |-> TRUE]
      [] command = "GroupResume" -> [name |-> "SetPaused", arg |-> FALSE]
      [] command \in {"GroupDelete", "GroupDupeDelete", "GroupFinalDelete", "GroupParkDelete"} ->
            [name |-> "Delete", arg |-> param]
      [] command = "GroupSetDupeKey" -> [name |-> "SetDupeKey", arg |-> param]
      [] command \in {"GroupSetPriority", "GroupSetCategory", "GroupSetName",
                      "GroupSetDupeScore", "GroupSetDupeMode", "GroupSetParameter"} ->
            [name |-> "Set", arg |-> param]
      [] command \in {"GroupMerge", "GroupSplit"} -> [name |-> "Nothing", arg |-> param]
      [] OTHER -> [name |-> "Unknown", arg |-> param]

Cmd(name, arg, ids) == [name |-> name, arg |-> arg, ids |-> ids]

(* The commands of a call, in the order they are sent.                     *)
Commands(r) ==
    CASE r.method = "editqueue" /\ r.command \in HistoryCommands ->
            [i \in DOMAIN r.ids |-> Cmd(r.command, r.param, <<r.ids[i]>>)]
      [] r.method = "editqueue" /\ r.command \notin HistoryCommands ->
            LET action == parse_edit_command(r.command, r.param)
            IN IF action.name = "Unknown" THEN <<>> ELSE <<Cmd(action.name, action.arg, r.ids)>>
      [] r.method = "append" -> <<Cmd("AddNzb", r.command, <<>>)>>
      [] r.method \in {"pausedownload", "resumedownload", "shutdown", "history", "listgroups"} ->
            <<Cmd(r.method, r.param, <<>>)>>
      [] r.method = "finish_post_processing" -> <<Cmd(r.method, r.param, r.ids)>>

HasReply(name) ==
    name \notin {"pausedownload", "resumedownload", "shutdown", "finish_post_processing"}
-----------------------------------------------------------------------------
(* The clients.                                                            *)
Over(c, kind) == [calls EXCEPT ![c].state = "over", ![c].reply = Answer(kind, 0)]

(* append writes the NZB to the temporary directory under the name the     *)
(* call gives; the coordinator will read it there.                         *)
Request(c, r) ==
    /\ calls[c].state = "idle"
    /\ temp_dir' = IF r.method = "append"
                   THEN [n \in DOMAIN temp_dir \union {r.command} |->
                           IF n = r.command THEN r.param ELSE temp_dir[n]]
                   ELSE temp_dir
    /\ LET left == Commands(r)
           unknown == left = <<>> /\ r.command \notin HistoryCommands
       IN calls' = [calls EXCEPT ![c] =
              [request |-> r, left |-> left, state |-> IF left = <<>> THEN "over" ELSE "sending",
               reply |-> Answer(IF unknown THEN "unknown" ELSE "true", 0)]]
    /\ UNCHANGED <<mailbox, alive, queueState, saved, served>>

(* send().await: a place in the mailbox, or an error when nobody reads it. *)
SendCommand(c) ==
    /\ calls[c].state = "sending"
    /\ LET cmd == Head(calls[c].left)
       IN IF ~alive THEN /\ calls' = Over(c, "Shutdown") /\ UNCHANGED mailbox
          ELSE /\ Len(mailbox) < CommandCap
               /\ mailbox' = Append(mailbox, [client |-> c, name |-> cmd.name, arg |-> cmd.arg,
                                              ids |-> cmd.ids])
               /\ calls' = [calls EXCEPT ![c].left = Tail(@),
                              ![c].state = IF HasReply(cmd.name) THEN "awaiting" ELSE "over"]
    /\ UNCHANGED <<alive, queueState, temp_dir, saved, served>>

(* The reply arrives: a refusal ends the call, otherwise the next id       *)
(* follows.                                                                *)
AfterReply(c, reply) ==
    IF reply.kind \in {"refused", "Shutdown"} THEN Over(c, reply.kind)
    ELSE IF calls[c].left # <<>> THEN [calls EXCEPT ![c].state = "sending"]
    ELSE Over(c, "true")

(* append then saves the bytes it was called with under the new id.        *)
ReplyArrives(c) ==
    LET r == calls[c].request
        reply == calls[c].reply
    IN /\ calls[c].state = "answered"
       /\ calls' = AfterReply(c, reply)
       /\ saved' = IF r.method = "append" /\ reply.kind = "ok"
                   THEN [n \in DOMAIN saved \union {reply.id} |->
                           IF n = reply.id THEN r.param ELSE saved[n]]
                   ELSE saved
       /\ UNCHANGED <<mailbox, alive, queueState, temp_dir, served>>

Rest(c) ==
    /\ calls[c].state = "over" /\ calls' = [calls EXCEPT ![c] = Free]
    /\ served' = [served EXCEPT ![c] = <<>>]
    /\ UNCHANGED <<mailbox, alive, queueState, temp_dir, saved>>
-----------------------------------------------------------------------------
(* The coordinator.                                                        *)
Moved(list, n, offset) ==
    LET rest == Remove(list, n)
        there == CHOOSE i \in DOMAIN list : list[i] = n
        to == there + offset
    IN InsertAt(rest, IF to < 1 THEN 1 ELSE IF to > Len(list) THEN Len(list) ELSE to, n)

(* One id of an edit; only a move of an unknown id is an error, and the    *)
(* ids before it stay moved.                                               *)
EditOne(st, cmd, n) ==
    IF ~st.ok THEN st
    ELSE IF n \notin Range(st.list) THEN [st EXCEPT !.ok = cmd.name # "Move"]
    ELSE CASE cmd.name = "Move" -> [st EXCEPT !.list = Moved(@, n, cmd.arg)]
           [] cmd.name = "Delete" -> [st EXCEPT !.list = SelectSeq(@, LAMBDA m : m # n)]
           [] cmd.name = "SetPaused" -> [st EXCEPT !.info[n].paused = cmd.arg]
           [] cmd.name = "SetDupeKey" -> [st EXCEPT !.info[n].dup_key = cmd.arg]
           [] cmd.name = "Set" -> [st EXCEPT !.info[n].settings = cmd.arg]
           [] OTHER -> st

apply_edit(cmd) ==
    LET Step(st, n) == EditOne(st, cmd, n)
        after == FoldLeft(Step, [list |-> nzb_list, info |-> info, ok |-> TRUE], cmd.ids)
    IN /\ nzb_list' = after.list /\ info' = after.info
       /\ UNCHANGED <<nzb_history, next_id, rpc_paused>>

EditRefused(cmd) == cmd.name = "Move" /\ ~(Range(cmd.ids) \subseteq Range(nzb_list))

(* The NZB is read from the path; the id is spent before the duplicate is  *)
(* noticed.                                                                *)
Duplicate(key) == \E n \in Range(nzb_list \o nzb_history) : info[n].dup_key = key

ingest_nzb(name) ==
    /\ next_id <= MaxId /\ next_id' = next_id + 1
    /\ IF Duplicate(name) THEN UNCHANGED <<nzb_list, info>>
       ELSE /\ nzb_list' = Append(nzb_list, next_id)
            /\ info' = [info EXCEPT ![next_id] =
                          [Fresh EXCEPT !.content = temp_dir[name], !.dup_key = name]]
    /\ UNCHANGED <<nzb_history, rpc_paused>>

(* Return, process and redownload give the NZB a new id.                   *)
HistoryToQueue(cmd, n) ==
    /\ next_id <= MaxId /\ next_id' = next_id + 1
    /\ nzb_history' = Remove(nzb_history, n) /\ nzb_list' = Append(nzb_list, next_id)
    /\ info' = [info EXCEPT ![next_id] =
                  [info[n] EXCEPT !.paused = FALSE,
                                  !.marked = @ /\ cmd.name = "HistoryReturn"]]
    /\ UNCHANGED rpc_paused

HistoryEdit(cmd, n) ==
    CASE cmd.name \in {"HistoryDelete", "HistoryFinalDelete"} ->
            /\ nzb_history' = Remove(nzb_history, n)
            /\ UNCHANGED <<nzb_list, next_id, info, rpc_paused>>
      [] cmd.name \in Marks ->
            /\ info' = [info EXCEPT ![n].marked = TRUE]
            /\ UNCHANGED <<nzb_list, nzb_history, next_id, rpc_paused>>
      [] OTHER -> HistoryToQueue(cmd, n)

finish_post_processing(n) ==
    IF n \notin Range(nzb_list) THEN UNCHANGED queueState
    ELSE /\ nzb_list' = Remove(nzb_list, n) /\ nzb_history' = Append(nzb_history, n)
         /\ UNCHANGED <<next_id, info, rpc_paused>>

(* The command at the head of the mailbox is handled; ReplyTo is what its  *)
(* client will read.                                                       *)
ReplyTo(cmd) ==
    LET refused == CASE cmd.name = "AddNzb" -> Duplicate(cmd.arg)
                     [] cmd.name \in HistoryCommands -> cmd.ids[1] \notin Range(nzb_history)
                     [] OTHER -> EditRefused(cmd)
    IN Answer(IF refused THEN "refused" ELSE "ok", next_id)

Perform(cmd) ==
    CASE cmd.name = "AddNzb" -> ingest_nzb(cmd.arg)
      [] cmd.name \in HistoryCommands ->
            IF cmd.ids[1] \in Range(nzb_history) THEN HistoryEdit(cmd, cmd.ids[1])
            ELSE UNCHANGED queueState
      [] cmd.name = "pausedownload" ->
            rpc_paused' = TRUE /\ UNCHANGED <<nzb_list, nzb_history, next_id, info>>
      [] cmd.name = "resumedownload" ->
            /\ rpc_paused' = FALSE
            /\ info' = [n \in 1..MaxId |-> IF n \in Range(nzb_list)
                                           THEN [info[n] EXCEPT !.paused = FALSE] ELSE info[n]]
            /\ UNCHANGED <<nzb_list, nzb_history, next_id>>
      [] cmd.name = "finish_post_processing" -> finish_post_processing(cmd.ids[1])
      [] cmd.name \in {"history", "listgroups"} -> UNCHANGED queueState
      [] OTHER -> apply_edit(cmd)

handle_command ==
    LET cmd == Head(mailbox)
    IN /\ alive /\ mailbox # <<>> /\ cmd.name # "shutdown"
       /\ mailbox' = Tail(mailbox) /\ Perform(cmd)
       /\ calls' = IF HasReply(cmd.name)
                   THEN [calls EXCEPT ![cmd.client].state = "answered",
                                      ![cmd.client].reply = ReplyTo(cmd)]
                   ELSE calls
       /\ served' = IF HasReply(cmd.name)
                    THEN [served EXCEPT ![cmd.client] = Append(@, ReplyTo(cmd).kind = "ok")]
                    ELSE served
       /\ UNCHANGED <<alive, temp_dir, saved>>

(* Mutant: the commands that wait are neither handled nor dropped.         *)
DroppedReplies == calls

(* Who waits for a reply that will not come is told Shutdown.              *)
LostReplies ==
    [c \in Clients |-> IF calls[c].state = "awaiting"
                       THEN [calls[c] EXCEPT !.state = "answered", !.reply = Answer("Shutdown", 0)]
                       ELSE calls[c]]

(* Shutdown clears the downloads in flight, so run() returns at once; the  *)
(* mailbox goes with the coordinator and with it every reply in it.        *)
ShutdownCoordinator ==
    /\ alive /\ mailbox # <<>> /\ Head(mailbox).name = "shutdown"
    /\ alive' = FALSE /\ mailbox' = <<>> /\ calls' = LostReplies
    /\ UNCHANGED <<queueState, temp_dir, saved, served>>

RemoteNext ==
    \/ handle_command \/ ShutdownCoordinator
    \/ \E c \in Clients :
          \/ \E r \in Requests : Request(c, r)
          \/ SendCommand(c) \/ ReplyArrives(c) \/ Rest(c)
-----------------------------------------------------------------------------
(* Every call is told what became of it, whenever the coordinator ends and *)
(* whoever edits in between: nobody waits for a reply that nobody will     *)
(* send; who is told true had every id of his call served; who is refused  *)
(* had the ids before the refused one served and none after it; and        *)
(* Shutdown is said only when the coordinator is gone.                     *)
Waits(c) == calls[c].state = "awaiting"

CallsAreAnswered ==
    \A c \in Clients :
        /\ Waits(c) => alive /\ \E i \in DOMAIN mailbox : mailbox[i].client = c
        /\ calls[c].state = "over" /\ calls[c].reply.kind # "unknown" =>
              LET asked == Commands(calls[c].request)
                  done == served[c]
              IN CASE calls[c].reply.kind = "true" ->
                        /\ Len(done) <= Len(asked)
                        /\ \A i \in DOMAIN asked : HasReply(asked[i].name) <=> i \in DOMAIN done
                        /\ \A i \in DOMAIN done : done[i]
                   [] calls[c].reply.kind = "refused" ->
                        /\ done # <<>> /\ Len(done) <= Len(asked)
                        /\ \A i \in DOMAIN done : done[i] <=> i < Len(done)
                   [] OTHER ->
                        /\ ~alive /\ Len(done) < Len(asked)
                        /\ \A i \in DOMAIN done : done[i]

=============================================================================
