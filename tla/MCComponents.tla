---------------------------- MODULE MCComponents ----------------------------
(* Every component that keeps state of its own beside the queue, the       *)
(* server pool and the disk state.  They share no variable: a behaviour    *)
(* runs one of them, the others stand still.                               *)
EXTENDS MCWorker, MCPost, MCRemote, MCViews, BackgroundServices, ServerVolumes, Feeds,
        NzbParser, Configuration, LogBuffer

(* BackgroundServices: three tasks, of which the second has a parameter    *)
(* that cannot be parsed, and one after a gap; days of two minutes.        *)
Task(time, weekdays, command) == [time |-> time, weekdays |-> weekdays, command |-> command]
ThreeTasks ==
    1 :> Task(1, <<<<1, 2>>>>, "PauseDownload") @@ 2 :> Task(1, <<<<2, 2>>>>, "Broken")
      @@ 3 :> Task(0, <<<<1, 1>>, <<2, 7>>>>, "UnpauseDownload") @@ 5 :> Task(0, <<>>, "PauseScan")

(* ServerVolumes: rings of two slots of one, two and four seconds.         *)
TwoSlots == [seconds |-> 2, minutes |-> 2, hours |-> 2]
SlotSeconds == [seconds |-> 1, minutes |-> 2, hours |-> 4]

(* Feeds: what a fetch may bring, as XML events.                           *)
Ev(k, t, v, n) == [kind |-> k, tag |-> t, text |-> v, name |-> n]
Elem(t, v) ==
    <<Ev("Start", t, Nothing, Nothing), Ev("Text", t, v, Nothing), Ev("End", t, Nothing, Nothing)>>
ItemOf(title, url, size) ==
    <<Ev("Start", "item", Nothing, Nothing)>> \o Elem("title", title) \o Elem("link", url)
      \o (IF size = 0 THEN <<>> ELSE <<Ev("Empty", "attr", size, "size")>>)
      \o <<Ev("End", "item", Nothing, Nothing)>>
Atom(title, url) ==
    <<Ev("Start", "entry", Nothing, Nothing), Ev("Empty", "link", url, Nothing)>>
      \o Elem("title", title)
      \o <<Ev("Empty", "enclosure", url, Nothing), Ev("Empty", "attr", "s1", "season"),
           Ev("End", "entry", Nothing, Nothing)>>
Fetches ==
    {ItemOf("good", "u1", 0) \o ItemOf("good", "u1", 3),
     Atom("bad", "u1") \o ItemOf("big", "u2", 5),
     ItemOf("good", "u2", 1) \o Atom("good", "u3"), <<>>}
Rule(action, conditions) == [action |-> action, conditions |-> conditions]
ThreeFilters ==
    1 :> <<Rule("Require", <<[field |-> "season", pattern |-> {"s1"}]>>),
           Rule("Reject", <<[field |-> "size", op |-> ">", number |-> 4]>>),
           Rule("Accept", <<[field |-> "title", pattern |-> {"good"}], [field |-> "priority"]>>)>>
    @@ 2 :> <<Rule("Options", <<[field |-> "category", pattern |-> {Nothing}]>>)>>
    @@ 3 :> Unreadable

(* NzbParser: names that ensure_unique_filenames makes of one another.     *)
SomeSubjects == {<<"x">>, <<"x", 2>>, NoName}
MainIsX == [n \in SomeSubjects |-> IF n = <<"x">> THEN "MainPar" ELSE "NotPar"]

(* Configuration: options that refer to one another, in the order of the    *)
(* file and against it; numbers and flags that are none; a gap in the      *)
(* servers; an option of the command line after the gap.                   *)
Option(name) == <<name>>
Host(n) == <<"Server", n, "Host">>
SortedKeys ==
    <<<<"Category", 1, "Name">>, <<"DestDir">>, <<"DiskSpace">>, <<"DownloadRate">>, <<"MainDir">>,
      <<"Server", 1, "Active">>, Host(1), Host(2), <<"UnpackCleanupDisk">>>>
OneWord(w) == <<Plain(w)>>
SomeFiles ==
    {<<Line(Option("MainDir"), OneWord("~")),
       Line(Option("DestDir"), <<Ref(Option("MainDir")), Plain("dst")>>),
       Line(Host(1), OneWord("h1")), Line(Host(2), OneWord("h2"))>>,
     <<Line(Option("DestDir"), <<Ref(Option("MainDir"))>>)>>,
     <<Line(Garbage, <<>>)>>}
SomeEdits ==
    {<<Line(Option("MainDir"), OneWord("a")),
       Line(Option("DestDir"), <<Ref(Option("MainDir")), Plain("~")>>)>>,
     <<Line(Option("DestDir"), <<Ref(Option("TempDir"))>>), Line(Option("DownloadRate"), OneWord("5"))>>,
     <<Line(Option("DownloadRate"), OneWord("fast")), Line(Host(1), <<>>)>>,
     <<Line(Host(1), OneWord("h3")), Line(<<"Server", 1, "Active">>, OneWord("No")),
       Line(Option("UnpackCleanupDisk"), OneWord("Yes")),
       Line(<<"Category", 1, "Name">>, OneWord("tv"))>>}
SomeOverrides ==
    {<<>>, <<Line(Option("DiskSpace"), OneWord("5")), Line(Host(2), OneWord("h4"))>>}
NumberFive == "5" :> 5

serverVars ==
    <<serviceVars, volumeVars, feedVars, nzbVars, remoteVars, configVars, viewVars, logVars>>

(* Where it is not the part that runs, there is no configuration, and no   *)
(* NZB to show.                                                            *)
ConfigStands ==
    /\ file = <<>> /\ raw = <<>> /\ fields = [servers |-> <<>>, download_rate |-> 0, disk_space |-> 0]
    /\ lock = Nobody /\ caller = NoCalls /\ calls_made = 0 /\ apart = TRUE /\ fresh = "none"

ViewsStand ==
    /\ place = "gone" /\ nzb = 0 /\ in_flight = {} /\ inbox = <<>> /\ job = NoJob
    /\ pollers = <<>> /\ truth = NothingYet

ComponentsInit ==
    /\ WorkerInit
    /\ PostInit
    /\ part # "postproc" => /\ config = [cleanup |-> FALSE, in_place |-> TRUE, extensions |-> TRUE]
                            /\ dir = (CHOOSE d \in HiddenNames : TRUE).dir /\ dest = <<>>
                            /\ rs_packets = Described(Both, Both) /\ rs_slices = <<>>
    /\ ServiceInit /\ VolumeInit /\ FeedInit /\ NzbInit /\ RemoteInit /\ LogInit
    /\ IF part = "views" THEN ViewInit ELSE ViewsStand
    /\ IF part = "config" THEN ConfigInit ELSE ConfigStands

ComponentsNext ==
    \/ WorkerNext /\ UNCHANGED <<postVars, serverVars>>
    \/ /\ UNCHANGED workerVars
       /\ \/ part = "postproc" /\ PostNext /\ UNCHANGED serverVars
          \/ /\ UNCHANGED postVars
             /\ \/ /\ part = "views" /\ ViewNext
                   /\ UNCHANGED <<serviceVars, volumeVars, feedVars, nzbVars, remoteVars, configVars, logVars>>
                \/ /\ part = "config" /\ ConfigNext
                   /\ UNCHANGED <<serviceVars, volumeVars, feedVars, nzbVars, remoteVars, viewVars, logVars>>
                \/ /\ part = "log" /\ LogNext
                   /\ UNCHANGED <<serviceVars, volumeVars, feedVars, nzbVars, remoteVars, configVars, viewVars>>
                \/ /\ UNCHANGED <<viewVars, configVars, logVars>>
                   /\ \/ /\ part = "services" /\ ServiceStep
                         /\ UNCHANGED <<cleanupVars, volumeVars, feedVars, nzbVars, remoteVars>>
                      \/ part = "cleanup" /\ Cleanup /\ UNCHANGED <<volumeVars, feedVars, nzbVars, remoteVars>>
                      \/ part = "volumes" /\ VolumeNext /\ UNCHANGED <<serviceVars, feedVars, nzbVars, remoteVars>>
                      \/ part = "feeds" /\ FeedNext /\ UNCHANGED <<serviceVars, volumeVars, nzbVars, remoteVars>>
                      \/ part = "nzb" /\ NzbNext /\ UNCHANGED <<serviceVars, volumeVars, feedVars, remoteVars>>
                      \/ part = "remote" /\ RemoteNext /\ UNCHANGED <<serviceVars, volumeVars, feedVars, nzbVars>>

ComponentsSpec == ComponentsInit /\ [][ComponentsNext]_<<workerVars, postVars, serverVars>>
=============================================================================
