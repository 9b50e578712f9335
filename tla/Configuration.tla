---------------------------- MODULE Configuration ----------------------------
(* The configuration: a file of Key=Value lines, the options as they were   *)
(* read (raw), the fields made of them, and the RPC calls that edit, save   *)
(* and reload them.  A save empties the file before it writes; a reload     *)
(* reads the file before it waits for the lock.                             *)
EXTENDS Naturals, SequencesExt, FiniteSets, Selection

CONSTANTS
    Callers,        \* RPC calls in progress
    KeyOrder,       \* the option names, sorted: <<"MainDir">>, <<"Server", 1, "Host">>, ...
    UserFiles,          \* files the user may write
    Overrides,      \* options of the command line: sequences of [key, value]
    Edits,          \* calls: sequences of [key, value]
    NumberOf,       \* [words that are numbers -> Nat]
    Home,           \* what ~ stands for
    Garbage,        \* for the key of a line without =
    MaxCalls,       \* bound on the calls
    Nobody

VARIABLES
    file, lock,     \* the file; who holds the write lock
    raw, fields,    \* Config
    caller,         \* [Callers -> [state, content]]
    calls_made,
    apart,          \* ghost: what the user, the command line or a late reload has set is not in the other
    fresh           \* ghost: which fields were made of the options: "all", "servers" or "none"

configVars == <<file, lock, raw, fields, caller, calls_made, apart, fresh>>

(* A value is a sequence of words and of references to other options.      *)
Plain(w) == <<"word", w>>
Ref(key) == <<"ref", key>>
Line(key, value) == [key |-> key, value |-> value]
Keys == Range(KeyOrder)

(* Lines, values and files are sequences; every option is in the order.     *)
IsEntry(line) == line.key \in Keys /\ IsList(line.value)
ASSUME ConfigAssumption ==
    /\ IsList(KeyOrder) /\ IsInjective(KeyOrder)
    /\ Garbage \notin Keys /\ Nobody \notin Callers /\ Home # "~"
    /\ \A content \in UserFiles : /\ IsList(content)
                                  /\ \A i \in DOMAIN content :
                                        content[i].key = Garbage \/ IsEntry(content[i])
    /\ \A entries \in Edits \union Overrides :
          IsList(entries) /\ \A i \in DOMAIN entries : IsEntry(entries[i])
-----------------------------------------------------------------------------
(* Reading.  Only options of earlier lines can be referred to; ~ is the    *)
(* home directory where nothing precedes it.                               *)
Unknown(value, values) ==
    \E i \in DOMAIN value : value[i][1] = "ref" /\ value[i][2] \notin DOMAIN values

interpolate_piece(values, result, piece) ==
    CASE piece[1] = "ref" -> result \o values[piece[2]]
      [] piece = Plain("~") /\ result = <<>> -> <<Plain(Home)>>
      [] OTHER -> Append(result, piece)

interpolate(value, values) ==
    FoldLeft(LAMBDA result, piece : interpolate_piece(values, result, piece), <<>>, value)

With(values, key, value) ==
    [k \in DOMAIN values \union {key} |-> IF k = key THEN value ELSE values[k]]

parse_line(st, line) ==
    IF ~st.ok \/ line.key = Garbage \/ Unknown(line.value, st.values)
    THEN [st EXCEPT !.ok = FALSE]
    ELSE [st EXCEPT !.values = With(@, line.key, interpolate(line.value, @))]

parse_config(lines) == FoldLeft(parse_line, [ok |-> TRUE, values |-> <<>>], lines)

(* The fields.  A bad value is the default; flags of the program are       *)
(* yes only as written, those of servers and categories in any case.       *)
TextOption(values, key, default) == IF key \in DOMAIN values THEN values[key] ELSE default

IsNumber(value) == Len(value) = 1 /\ value[1][2] \in DOMAIN NumberOf
Number(values, key, default) ==
    IF key \in DOMAIN values /\ IsNumber(values[key]) THEN NumberOf[values[key][1][2]]
    ELSE default

Flag(values, key, default) ==
    IF key \in DOMAIN values THEN values[key] \in {<<Plain("yes")>>, <<Plain("true")>>, <<Plain("1")>>}
    ELSE default

parse_bool(values, key, default) ==
    LET value == TextOption(values, key, <<>>)
    IN CASE value \in {<<Plain("yes")>>, <<Plain("Yes")>>, <<Plain("true")>>, <<Plain("1")>>} -> TRUE
         [] value \in {<<Plain("no")>>, <<Plain("No")>>, <<Plain("false")>>, <<Plain("0")>>} -> FALSE
         [] OTHER -> default

(* Servers, categories and feeds are numbered from 1 to the first gap.     *)
Count(values, kind, name) ==
    LET Named(n) == TextOption(values, <<kind, n, name>>, <<>>) # <<>>
    IN CHOOSE n \in 0..Cardinality(Keys) :
          /\ \A i \in 1..n : Named(i)
          /\ ~Named(n + 1)

extract_servers(values) ==
    [n \in 1..Count(values, "Server", "Host") |->
        [id |-> n, host |-> values[<<"Server", n, "Host">>],
         active |-> parse_bool(values, <<"Server", n, "Active">>, TRUE),
         connections |-> Number(values, <<"Server", n, "Connections">>, 1),
         level |-> Number(values, <<"Server", n, "Level">>, 0)]]

extract_categories(values) ==
    [n \in 1..Count(values, "Category", "Name") |->
        [name |-> values[<<"Category", n, "Name">>],
         dest_dir |-> TextOption(values, <<"Category", n, "DestDir">>, <<>>),
         unpack |-> parse_bool(values, <<"Category", n, "Unpack">>, TRUE)]]

from_raw(values) ==
    LET main == TextOption(values, <<"MainDir">>, <<Plain("~"), Plain("downloads")>>)
    IN [main_dir |-> main,
        dest_dir |-> TextOption(values, <<"DestDir">>, Append(main, Plain("dst"))),
        download_rate |-> Number(values, <<"DownloadRate">>, 0),
        disk_space |-> Number(values, <<"DiskSpace">>, 250),
        unpack_cleanup_disk |-> Flag(values, <<"UnpackCleanupDisk">>, TRUE),
        servers |-> extract_servers(values),
        categories |-> extract_categories(values)]
-----------------------------------------------------------------------------
(* Writing.                                                                *)
Saved(values) ==
    LET keys == Selected(KeyOrder, DOMAIN values)
    IN [i \in DOMAIN keys |-> Line(keys[i], values[keys[i]])]

(* Mutant: the value is kept as it was given.                              *)
set_option_unresolved(st, entry) ==
    IF Unknown(entry.value, st.raw) THEN st
    ELSE [st EXCEPT !.raw = With(@, entry.key, entry.value)]

(* An option that refers to an unknown one is left out; the two that are   *)
(* numbers keep their field when the value is none, not their raw value.   *)
set_option(st, entry) ==
    IF Unknown(entry.value, st.raw) THEN st
    ELSE LET value == interpolate(entry.value, st.raw)
             kept == [st EXCEPT !.raw = With(@, entry.key, value)]
         IN CASE entry.key = <<"DownloadRate">> /\ IsNumber(value) ->
                    [kept EXCEPT !.fields.download_rate = NumberOf[value[1][2]]]
              [] entry.key = <<"DiskSpace">> /\ IsNumber(value) ->
                    [kept EXCEPT !.fields.disk_space = NumberOf[value[1][2]]]
              [] OTHER -> kept

set_options(st, entries) == FoldLeft(set_option, st, entries)

refresh_servers(st) == [st EXCEPT !.fields.servers = extract_servers(st.raw)]
-----------------------------------------------------------------------------
(* The calls.                                                              *)
NoCalls == [c \in Callers |-> [state |-> "idle", content |-> <<>>]]

(* The options of the command line are taken as they are.                  *)
Overridden(values, overrides) ==
    FoldLeft(LAMBDA result, o : With(result, o.key, o.value), values, overrides)

load_config(content, overrides) == Overridden(parse_config(content).values, overrides)

ConfigInit ==
    /\ file \in {content \in UserFiles : parse_config(content).ok}
    /\ \E overrides \in Overrides :
          raw = load_config(file, overrides) /\ apart = (overrides # <<>>)
    /\ fields = from_raw(raw) /\ fresh = "all"
    /\ lock = Nobody /\ caller = NoCalls /\ calls_made = 0

Begins(c) == caller[c].state = "idle" /\ calls_made < MaxCalls /\ calls_made' = calls_made + 1

(* saveconfig and editserver: the options are set and the file is emptied  *)
(* under the lock; only editserver renews the servers.                     *)
SetOptions(c, entries, servers_too) ==
    /\ Begins(c) /\ lock = Nobody /\ lock' = c
    /\ LET set == set_options([raw |-> raw, fields |-> fields], entries)
           after == IF servers_too THEN refresh_servers(set) ELSE set
       IN raw' = after.raw /\ fields' = after.fields
    /\ file' = <<>>
    /\ fresh' = IF servers_too THEN "servers" ELSE "none"
    /\ caller' = [caller EXCEPT ![c].state = IF servers_too THEN "edits" ELSE "saves"]
    /\ UNCHANGED apart

rpc_saveconfig(c, entries) == SetOptions(c, entries, FALSE)
rpc_editserver(c, entries) == SetOptions(c, entries, TRUE)

(* What the file held is lost, read or not.                                *)
save(c) ==
    /\ lock = c /\ lock' = Nobody
    /\ file' = Saved(raw) /\ apart' = FALSE
    /\ caller' = [caller EXCEPT ![c].state = "idle"]
    /\ UNCHANGED <<raw, fields, calls_made, fresh>>

(* reload reads and parses with no lock; an error ends it.                 *)
ReadConfig(c) ==
    /\ Begins(c)
    /\ IF parse_config(file).ok
       THEN caller' = [caller EXCEPT ![c] = [state |-> "reloads", content |-> file]]
       ELSE UNCHANGED caller
    /\ UNCHANGED <<file, lock, raw, fields, apart, fresh>>

rpc_reload(c) ==
    /\ caller[c].state = "reloads" /\ lock = Nobody
    /\ raw' = parse_config(caller[c].content).values
    /\ fields' = from_raw(raw') /\ fresh' = "all"
    /\ apart' = (caller[c].content # file)
    /\ caller' = [caller EXCEPT ![c] = [state |-> "idle", content |-> <<>>]]
    /\ UNCHANGED <<file, lock, calls_made>>

(* The user edits the file; a reload while nobody saves makes it good.     *)
UserEdits(content) ==
    /\ calls_made < MaxCalls /\ calls_made' = calls_made + 1
    /\ lock = Nobody /\ file' = content /\ apart' = TRUE
    /\ UNCHANGED <<lock, raw, fields, caller, fresh>>

(* The program ends, in the middle of a save or not, and starts again      *)
(* where the file can be read.                                             *)
Restarted ==
    /\ calls_made < MaxCalls /\ calls_made' = calls_made + 1
    /\ parse_config(file).ok
    /\ \E overrides \in Overrides :
          raw' = load_config(file, overrides) /\ apart' = (overrides # <<>>)
    /\ fields' = from_raw(raw') /\ fresh' = "all"
    /\ lock' = Nobody /\ caller' = NoCalls
    /\ UNCHANGED file

ConfigNext ==
    \/ \E c \in Callers :
          \/ \E entries \in Edits : rpc_saveconfig(c, entries) \/ rpc_editserver(c, entries)
          \/ save(c) \/ ReadConfig(c) \/ rpc_reload(c)
    \/ \E content \in UserFiles : UserEdits(content)
    \/ Restarted
-----------------------------------------------------------------------------
(* The options in memory are those a restart would read whenever no call   *)
(* saves, in whatever order values refer to one another, calls come and    *)
(* the program is stopped; unless the user edited the file, or named       *)
(* options with the command, or a reload held what a save had replaced,    *)
(* and nothing was saved since.  The fields are those that a restart       *)
(* would make, but for what saveconfig has set and for numbers that are    *)
(* none; editserver makes the servers anew.                                *)
NumberFields == [download_rate |-> <<"DownloadRate">>, disk_space |-> <<"DiskSpace">>]

ConfigReloadsAsSaved ==
    /\ lock = Nobody /\ ~apart =>
          parse_config(file).ok /\ parse_config(file).values = raw
    /\ fresh = "all" => fields = from_raw(raw)
    /\ fresh # "none" => fields.servers = extract_servers(raw)
    /\ \A f \in DOMAIN NumberFields :
          Number(raw, NumberFields[f], fields[f]) = fields[f]
=============================================================================
