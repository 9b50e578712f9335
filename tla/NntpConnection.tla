--------------------------- MODULE NntpConnection ---------------------------
(***************************************************************************)
(* One NNTP connection: the sans-I/O machine (machine.rs), the driver that *)
(* moves its outputs to the socket and the socket's lines to it            *)
(* (protocol.rs), and the server at the other end.                         *)
(***************************************************************************)
EXTENDS Integers, SequencesExt

CONSTANTS
    Groups,         \* newsgroups of the server and of the NZBs
    Articles,       \* [message ids -> Seq(lines)], a line is a Seq(chars)
    Dot,            \* the character "."
    None,
    NntpMaxCalls    \* bound: calls made on a connection

ASSUME NntpAssumption ==
    /\ None \notin {"fetch_body", "fetch_body_pipelined"}
    /\ \A id \in DOMAIN Articles :
          /\ Articles[id] \in Seq(Range(Articles[id]))
          /\ \A i \in DOMAIN Articles[id] : Articles[id][i] \in Seq(Range(Articles[id][i]))

VARIABLES
    machine,        \* NntpMachine
    driver,         \* the drive loop in progress, or where the caller stands
    nntp_call,      \* the call in progress: [name, group, id]
    lines,          \* body lines handed to the caller
    calls_left,
    to_server, to_client, open, \* the socket: lines both ways, not yet closed
    torn,           \* what came of the line in which the connection broke
    deflated,       \* DeflateStream installed
    server          \* the server: [group, auth, deflate]

nntpVars == <<machine, driver, nntp_call, lines, calls_left,
              to_server, to_client, open, torn, deflated, server>>

Prompt == [kind |-> "NeedResponseLine"]
BodyPrompt == [kind |-> "NeedBodyLine"]
Send(verb, arg) == [kind |-> "SendCommand", verb |-> verb, arg |-> arg]
Event(e) == [kind |-> "Event", event |-> e]
Failure == Event("Error")

NewMachine ==
    [state |-> "AwaitGreeting", outputs |-> <<Prompt>>, current_group |-> None,
     pending_group |-> None, pending_password |-> FALSE, authenticated |-> FALSE]

NoCall == [name |-> None, group |-> None, id |-> None]

NntpInit ==
    /\ machine = NewMachine /\ driver = "machine"
    /\ nntp_call = [NoCall EXCEPT !.name = "connect"]
    /\ lines = <<>> /\ calls_left = NntpMaxCalls
    /\ to_server = <<>> /\ open = TRUE /\ torn = <<>> /\ deflated = FALSE
    /\ \E code \in {200, 201, 502, 0} :
          to_client = <<[to |-> "connect", code |-> code, deflate |-> FALSE]>>
    /\ server = [group |-> None, auth |-> FALSE, deflate |-> FALSE]
-----------------------------------------------------------------------------
(* The requests: what they queue and the state they go to.                 *)

Ask(m, outs, state) ==
    [m EXCEPT !.outputs = @ \o outs \o <<Prompt>>, !.state = state]

request_starttls(m) == Ask(m, <<Send("STARTTLS", None)>>, "AwaitStartTlsResponse")

request_compress(m) == Ask(m, <<Send("COMPRESS", None)>>, "AwaitCompressResponse")

request_auth(m) ==
    Ask([m EXCEPT !.pending_password = TRUE], <<Send("USER", None)>>, "AwaitAuthUser")

request_stat(m, id) == Ask(m, <<Send("STAT", id)>>, "AwaitStat")

request_body(m, id) == Ask(m, <<Send("BODY", id)>>, "AwaitBodyResponse")

request_quit(m) == Ask(m, <<Send("QUIT", None)>>, "AwaitQuit")

(* A group that is selected already is not asked for again.                *)
request_group(m, group) ==
    IF m.current_group = group
    THEN [m EXCEPT !.outputs = Append(@, Event("GroupJoined"))]
    ELSE Ask([m EXCEPT !.pending_group = group], <<Send("GROUP", group)>>, "AwaitGroup")

(* Both commands are sent before the first response is read.               *)
request_group_body(m, group, id) ==
    IF m.current_group = group THEN request_body(m, id)
    ELSE Ask([m EXCEPT !.pending_group = group],
             <<Send("GROUP", group), Send("BODY", id)>>, "AwaitPipelinedGroupResponse")
-----------------------------------------------------------------------------
(* handle_input: the reaction to a response line in each state.  A line    *)
(* that does not parse has code 0.                                         *)

Emit(m, outs, state) == [m EXCEPT !.outputs = @ \o outs, !.state = state]

(* A response that was not hoped for, and one that is no response.         *)
Refuse(m, code) == Emit(m, <<Failure>>, IF code = 0 THEN "Done" ELSE "Idle")
Quit(m) == Emit(m, <<Failure>>, "Done")

OnGreeting(m, code) ==
    IF code \in {200, 201} THEN Emit(m, <<Event("GreetingOk")>>, "Idle") ELSE Quit(m)

Authenticated(m) ==
    Emit([m EXCEPT !.authenticated = TRUE, !.pending_password = FALSE],
         <<Event("Authenticated")>>, "Idle")

OnAuthUser(m, code) ==
    LET cleared == [m EXCEPT !.pending_password = FALSE]
    IN CASE code = 281 -> Authenticated(m)
         [] code = 381 /\ m.pending_password ->
              Ask(cleared, <<Send("PASS", None)>>, "AwaitAuthPass")
         [] OTHER -> Quit(cleared)

OnAuthPass(m, code) == IF code = 281 THEN Authenticated(m) ELSE Quit(m)

Joined(m) == [m EXCEPT !.current_group = m.pending_group, !.pending_group = None]

OnGroup(m, code) ==
    IF code = 211 THEN Emit(Joined(m), <<Event("GroupJoined")>>, "Idle")
    ELSE Refuse([m EXCEPT !.pending_group = None], code)

OnStat(m, code) ==
    IF code \in {223, 430} THEN Emit(m, <<Event("StatResult")>>, "Idle")
    ELSE Refuse(m, code)

(* Mutant of OnPipelinedGroup: a refused group leaves the machine idle.    *)
OnPipelinedGroupIdle(m, code) ==
    IF code = 211
    THEN Emit(Joined(m), <<Event("GroupJoined"), Prompt>>, "AwaitPipelinedBodyResponse")
    ELSE Refuse([m EXCEPT !.pending_group = None], code)

OnPipelinedGroup(m, code) ==
    IF code = 211
    THEN Emit(Joined(m), <<Event("GroupJoined"), Prompt>>, "AwaitPipelinedBodyResponse")
    ELSE Quit([m EXCEPT !.pending_group = None])

OnBodyResponse(m, code) ==
    IF code = 222 THEN Emit(m, <<BodyPrompt>>, "ReadingBody") ELSE Refuse(m, code)

OnStartTls(m, code) ==
    IF code = 382
    THEN Emit(m, <<[kind |-> "UpgradeToTls"], Prompt>>, "AwaitStartTlsGreeting")
    ELSE Quit(m)

OnCompress(m, code) ==
    IF code = 206
    THEN Emit(m, <<[kind |-> "UpgradeToDeflate"], Event("CompressActive")>>, "Idle")
    ELSE Emit(m, <<Failure>>, "Idle")

Response(m, code) ==
    CASE m.state \in {"AwaitGreeting", "AwaitStartTlsGreeting"} -> OnGreeting(m, code)
      [] m.state = "AwaitAuthUser" -> OnAuthUser(m, code)
      [] m.state = "AwaitAuthPass" -> OnAuthPass(m, code)
      [] m.state = "AwaitGroup" -> OnGroup(m, code)
      [] m.state = "AwaitStat" -> OnStat(m, code)
      [] m.state = "AwaitPipelinedGroupResponse" -> OnPipelinedGroup(m, code)
      [] m.state \in {"AwaitPipelinedBodyResponse", "AwaitBodyResponse"} ->
           OnBodyResponse(m, code)
      [] m.state = "AwaitStartTlsResponse" -> OnStartTls(m, code)
      [] m.state = "AwaitCompressResponse" -> OnCompress(m, code)
      [] m.state = "AwaitQuit" -> Emit(m, <<Event("QuitAck")>>, "Done")
      [] m.state = "Idle" -> Emit(m, <<Failure>>, "Idle")
      [] m.state = "Done" -> m
      [] OTHER -> Quit(m)

Stuffed(text) == IF text # <<>> /\ text[1] = Dot THEN <<Dot>> \o text ELSE text

(* Mutant of Unstuffed: a first dot takes another with it.                        *)
UnstuffedTwo(text) ==
    IF text # <<>> /\ text[1] = Dot /\ Len(text) > 2 THEN SubSeq(text, 3, Len(text))
    ELSE text

Unstuffed(text) ==
    IF Len(text) > 1 /\ text[1] = Dot /\ text[2] = Dot THEN Tail(text) ELSE text
-----------------------------------------------------------------------------
(* The calls.  The pool makes one at a time and drops the connection after *)
(* any error; here the caller may also go on, as the interface allows.     *)

NntpStep(m) == machine' = m /\ UNCHANGED <<lines, calls_left, open, server>>

Call(name, group, id, m, loop) ==
    /\ driver = "ready" /\ machine.state = "Idle" /\ calls_left > 0
    /\ machine' = m /\ driver' = loop /\ lines' = <<>>
    /\ nntp_call' = [name |-> name, group |-> group, id |-> id]
    /\ calls_left' = calls_left - 1
    /\ UNCHANGED <<to_server, to_client, open, torn, deflated, server>>

starttls == Call("starttls", None, None, request_starttls(machine), "machine")
compress == ~deflated
    /\ Call("compress", None, None, request_compress(machine), "machine")
authenticate == Call("authenticate", None, None, request_auth(machine), "machine")
join_group(g) == Call("join_group", g, None, request_group(machine, g), "machine")
stat(id) == Call("stat", None, id, request_stat(machine, id), "machine")
fetch_body(id) == Call("fetch_body", None, id, request_body(machine, id), "body")
fetch_body_pipelined(g, id) ==
    Call("fetch_body_pipelined", g, id, request_group_body(machine, g, id), "pipelined")
quit == Call("quit", None, None, request_quit(machine), "machine")
-----------------------------------------------------------------------------
(* The drive loops take one output at a time.                              *)

Driving == driver \in {"machine", "body", "pipelined"}
Output(kind) == Driving /\ machine.outputs # <<>> /\ Head(machine.outputs).kind = kind
Popped == [machine EXCEPT !.outputs = Tail(@)]

(* The call returns, with a result or with an error.                       *)
Return(m, to) ==
    /\ driver' = to /\ nntp_call' = IF to = "ready" THEN NoCall ELSE nntp_call
    /\ NntpStep(m) /\ UNCHANGED <<to_server, to_client, torn, deflated>>

send_raw ==
    /\ Output("SendCommand")
    /\ \/ /\ to_server' = Append(to_server, Head(machine.outputs))
          /\ NntpStep(Popped)
          /\ UNCHANGED <<driver, nntp_call, to_client, torn, deflated>>
       \/ ~open /\ Return(Popped, "failed")

(* At the end of the stream both ways to read a line return what there is. *)
read_response_line ==
    /\ Output("NeedResponseLine")
    /\ \/ /\ to_client # <<>> /\ to_client' = Tail(to_client)
          /\ NntpStep(Response(Popped, Head(to_client).code))
          /\ UNCHANGED <<driver, nntp_call, to_server, torn, deflated>>
       \/ /\ to_client = <<>> /\ torn # <<>> /\ torn' = <<>>
          /\ NntpStep(Response(Popped, 0))
          /\ UNCHANGED <<driver, nntp_call, to_server, to_client, deflated>>
       \/ to_client = <<>> /\ torn = <<>> /\ ~open /\ Return(Popped, "failed")

drive_event ==
    \/ /\ Output("Event")
       /\ LET e == Head(machine.outputs).event
              awaited == driver = "machine" /\ e # "Error"
              joined == driver = "pipelined" /\ e = "GroupJoined"
          IN \/ awaited /\ Return(Popped, "ready")
             \/ joined /\ Return(Popped, driver)
             \/ ~awaited /\ ~joined /\ Return(Popped, "failed")
    \/ Output("NeedBodyLine") /\ driver # "machine" /\ Return(Popped, "reading")
    \/ Driving /\ machine.outputs = <<>> /\ Return(machine, "failed")

(* do_tls_upgrade: a boxed stream cannot be upgraded.                      *)
do_tls_upgrade == Output("UpgradeToTls") /\ Return(Popped, "failed")

(* The bytes that were read ahead go to the new stream.                    *)
do_deflate_upgrade ==
    /\ Output("UpgradeToDeflate") /\ deflated' = TRUE
    /\ NntpStep(Popped)
    /\ UNCHANGED <<driver, nntp_call, to_server, to_client, torn>>

(* BodyReader::read_line: the machine's outputs are drained in one go.     *)
BodyLine(text) ==
    IF text = <<Dot>>
    THEN /\ machine' = [machine EXCEPT !.state = "Idle"]
         /\ driver' = "ready" /\ UNCHANGED lines
    ELSE /\ lines' = Append(lines, Unstuffed(text))
         /\ UNCHANGED <<machine, driver>>

read_line ==
    /\ driver = "reading" /\ machine.state = "ReadingBody"
    /\ \/ /\ to_client # <<>> /\ to_client' = Tail(to_client)
          /\ BodyLine(Head(to_client).text) /\ UNCHANGED torn
       \/ /\ to_client = <<>> /\ torn # <<>> /\ torn' = <<>>
          /\ BodyLine(torn) /\ UNCHANGED to_client
    /\ UNCHANGED <<nntp_call, calls_left, to_server, open, deflated, server>>

read_line_eof ==
    /\ driver = "reading" /\ to_client = <<>> /\ torn = <<>> /\ ~open
    /\ Return([machine EXCEPT !.state = "Done"], "failed")

(* The caller drops the connection, or goes on after an error.             *)
Dropped ==
    /\ driver \in {"failed", "ready"} /\ driver' = "dropped"
    /\ nntp_call' = NoCall /\ lines' = <<>>
    /\ UNCHANGED <<machine, calls_left, to_server, to_client, open, torn, deflated, server>>

GoOn ==
    /\ driver = "failed" /\ machine.state = "Idle"
    /\ Return(machine, "ready")
-----------------------------------------------------------------------------
(* The server answers the commands in order, and may close the connection. *)

Reply(verb, code) == <<[to |-> verb, code |-> code, deflate |-> server.deflate]>>
BodyOf(id) ==
    [i \in 1..Len(Articles[id]) |-> [to |-> "line", text |-> Stuffed(Articles[id][i])]]
        \o <<[to |-> "line", text |-> <<Dot>>]>>

ServerAnswers ==
    LET cmd == Head(to_server)
        Answer(code, s) ==
           to_client' = to_client \o Reply(cmd.verb, code) /\ server' = s
    IN /\ open /\ to_server # <<>> /\ to_server' = Tail(to_server)
       /\ \/ Answer(0, server) \/ Answer(500, server)
          \/ cmd.verb = "GROUP" /\ Answer(211, [server EXCEPT !.group = cmd.arg])
          \/ cmd.verb = "STAT" /\ \E code \in {223, 430} : Answer(code, server)
          \/ cmd.verb = "BODY" /\ \E code \in {430, 480} : Answer(code, server)
          \/ /\ cmd.verb = "BODY" /\ UNCHANGED server
             /\ to_client' = to_client \o Reply("BODY", 222) \o BodyOf(cmd.arg)
          \/ cmd.verb = "USER" /\ \E code \in {281, 381} :
                Answer(code, [server EXCEPT !.auth = code = 281])
          \/ cmd.verb = "PASS" /\ Answer(281, [server EXCEPT !.auth = TRUE])
          \/ cmd.verb = "STARTTLS" /\ Answer(382, server)
          \/ cmd.verb = "COMPRESS" /\ Answer(206, [server EXCEPT !.deflate = TRUE])
          \/ cmd.verb = "QUIT" /\ Answer(205, server)
       /\ UNCHANGED <<machine, driver, nntp_call, lines, calls_left, open, torn, deflated>>

(* What may come of a line in which the connection breaks: of a body line, *)
(* its beginning; of a response, too little to have a code.  A response    *)
(* that is cut after its code, and a line that is cut in its CRLF, read    *)
(* like whole ones.                                                        *)
Torn(line) ==
    IF "code" \in DOMAIN line THEN {<<None>>}
    ELSE {SubSeq(line.text, 1, k) : k \in 1..(Len(line.text) - 1)}

(* What is on its way when the connection breaks may be lost, the last     *)
(* line that arrives in part.                                              *)
ServerCloses ==
    /\ open /\ open' = FALSE
    /\ \E n \in 0..Len(to_client) :
          /\ to_client' = SubSeq(to_client, 1, n)
          /\ \/ UNCHANGED torn
             \/ n < Len(to_client) /\ torn' \in Torn(to_client[n + 1])
    /\ UNCHANGED <<machine, driver, nntp_call, lines, calls_left,
                   to_server, deflated, server>>

Calls ==
    \/ starttls \/ compress \/ authenticate \/ quit
    \/ \E g \in Groups : join_group(g)
    \/ \E id \in DOMAIN Articles : stat(id) \/ fetch_body(id)
    \/ \E g \in Groups, id \in DOMAIN Articles : fetch_body_pipelined(g, id)

NntpNext ==
    \/ Calls \/ send_raw \/ read_response_line \/ drive_event
    \/ do_tls_upgrade \/ do_deflate_upgrade \/ read_line \/ read_line_eof
    \/ Dropped \/ GoOn \/ ServerAnswers \/ ServerCloses

-----------------------------------------------------------------------------
(* Properties.                                                             *)

(* The machine may be asked for something new only when nothing of an      *)
(* earlier call is left: no output of the machine, no command without its  *)
(* answer and no unread line, or the next answer would be taken for that   *)
(* of another command; and the group it remembers, which saves a command,  *)
(* is the one the server has selected.  Errors, refused groups and new     *)
(* logins are no exception.                                                *)
ConnectionStaysInSync ==
    driver \in {"ready", "failed"} /\ machine.state = "Idle" =>
       /\ machine.outputs = <<>> /\ to_client = <<>> /\ torn = <<>>
       /\ open => to_server = <<>>
       /\ open => deflated = server.deflate
       /\ machine.current_group \in {None, server.group}

(* A body that is returned as complete is the article that was asked for,  *)
(* line by line, whatever dots its lines begin with; one that breaks off   *)
(* is an error.  Or nearly so: where the connection breaks after the first *)
(* of the two dots of a stuffed line, read_until hands over that dot at    *)
(* the end of the stream, and it is taken for the line that ends a body.   *)
CutAtDot(body, article) ==
    \E i \in DOMAIN article :
       /\ body = SubSeq(article, 1, i - 1)
       /\ article[i] # <<>> /\ article[i][1] = Dot

BodyIsTheArticle ==
    driver = "ready" /\ nntp_call.name \in {"fetch_body", "fetch_body_pipelined"}
       => \/ lines = Articles[nntp_call.id]
          \/ ~open /\ CutAtDot(lines, Articles[nntp_call.id])
=============================================================================
