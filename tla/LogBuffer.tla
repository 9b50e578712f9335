----------------------------- MODULE LogBuffer -----------------------------
(***************************************************************************)
(* The log: a ring of messages that every task and the writelog call push  *)
(* to, and a page that polls it for what is new.  A message is its id,     *)
(* which it gets before the lock is taken.                                 *)
(***************************************************************************)
EXTENDS Naturals, SequencesExt, Selection

CONSTANTS
    Tracing,        \* tasks that log
    LogCalls,       \* writelog calls in progress
    LogCapacity,
    MaxMessages     \* bound on the messages pushed

ASSUME LogAssumption == LogCapacity \in Nat \ {0}

Writers == Tracing \union LogCalls

VARIABLES
    messages, next_message_id,
    pushing,        \* [Writers -> the id of the message it pushes, or 0]
    page, lastID,   \* the messages that the page shows, and where it goes on
    pushed          \* ghost: all messages, in the order they were pushed in

logVars == <<messages, next_message_id, pushing, page, lastID, pushed>>

LogInit ==
    /\ messages = <<>> /\ next_message_id = 1
    /\ pushing = [w \in Writers |-> 0]
    /\ page = <<>> /\ lastID = 0 /\ pushed = <<>>

push_id(w) ==
    /\ pushing[w] = 0 /\ next_message_id <= MaxMessages
    /\ pushing' = [pushing EXCEPT ![w] = next_message_id] /\ next_message_id' = next_message_id + 1
    /\ UNCHANGED <<messages, page, lastID, pushed>>

on_event == \E w \in Tracing : push_id(w)
rpc_writelog == \E w \in LogCalls : push_id(w)

push_message(w) ==
    /\ pushing[w] # 0
    /\ messages' = Append(IF Len(messages) >= LogCapacity THEN Tail(messages) ELSE messages,
                          pushing[w])
    /\ pushed' = Append(pushed, pushing[w])
    /\ pushing' = [pushing EXCEPT ![w] = 0]
    /\ UNCHANGED <<next_message_id, page, lastID>>
-----------------------------------------------------------------------------
messages_since(since_id) == Selected(messages, {id \in Range(messages) : id > since_id})

(* Mutant: what the page names is taken for what it has.                   *)
rpc_loadlog_after(id_from, number_of_entries) == messages_since(id_from)

(* From an id, or the newest.                                              *)
rpc_loadlog(id_from, number_of_entries) ==
    LET found == messages_since(IF id_from = 0 THEN 0 ELSE id_from - 1)
    IN IF number_of_entries > 0 /\ id_from = 0 /\ Len(found) > number_of_entries
       THEN SubSeq(found, Len(found) - number_of_entries + 1, Len(found))
       ELSE found

(* The page goes on after the last message of its list (LogBuffer of which *)
(* it keeps, the length of the log itself).                                *)
PagePolls ==
    LET shown == page \o rpc_loadlog(lastID + 1, 0)
    IN /\ shown # page /\ page' = shown /\ lastID' = Last(shown)
       /\ UNCHANGED <<messages, next_message_id, pushing, pushed>>

(* clearlog: of the page, which then starts anew, or of another.           *)
clear ==
    /\ messages # <<>> /\ messages' = <<>>
    /\ \/ page' = <<>> /\ lastID' = 0
       \/ UNCHANGED <<page, lastID>>
    /\ UNCHANGED <<next_message_id, pushing, pushed>>

LogNext ==
    \/ on_event \/ rpc_writelog \/ PagePolls \/ clear
    \/ \E w \in Writers : push_message(w)
-----------------------------------------------------------------------------
(* A message overtakes another when it is pushed with a later id before it. *)
Overtakes(i, j) == i < j /\ pushed[i] > pushed[j]
Raced == {m \in Range(pushed) : \E i, j \in DOMAIN pushed :
             Overtakes(i, j) /\ m \in {pushed[i], pushed[j]}}

(* The page shows every message once, unless it left the log before the    *)
(* poll, whatever is pushed, evicted and cleared between two polls; only   *)
(* messages whose ids are in another order than the log may be lost or be  *)
(* shown twice.  The log holds the newest messages, in their order.        *)
LogIsReadOnce ==
    /\ \A m \in Range(messages) \ Raced : m \in Range(page) \/ m > lastID
    /\ \A i, j \in DOMAIN page : page[i] = page[j] => i = j \/ page[i] \in Raced
    /\ \A i \in DOMAIN page : page[i] > lastID => page[i] \in Raced
    /\ IsSuffix(messages, pushed) /\ Len(messages) <= LogCapacity
    /\ \A n \in 1..LogCapacity :
          LET newest == rpc_loadlog(0, n)
          IN IsSuffix(newest, pushed) /\ Len(newest) = (IF n < Len(messages) THEN n ELSE Len(messages))
=============================================================================
