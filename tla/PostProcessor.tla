--------------------------- MODULE PostProcessor ---------------------------
(***************************************************************************)
(* Post-processing of one NZB: the stages of PostProcessor::process from   *)
(* the request to the report, on the files of the working directory and    *)
(* of the destination.  The stages run one after the other in one task;    *)
(* unpackers, the file system and whatever was downloaded decide what      *)
(* they meet.  A directory maps the names of its files to their contents.  *)
(***************************************************************************)
EXTENDS Par2Set, FiniteSets, TLC

CONSTANTS
    Names,          \* file names
    Extension,      \* [Names -> "rar", "par2", "bin" or "zip"]
    Obfuscated,     \* names that look obfuscated
    NzbFile,        \* [extensions -> the name of the NZB with that extension]
    Unpacked,       \* [archives -> name of the file in it]
    HashPrefix,     \* words that the 16k hash covers
    Configs,        \* configurations: [cleanup, in_place, extensions -> BOOLEAN]
    Downloads       \* what a download may leave: a working directory, with the
                    \* recovery slices and the packets its PAR2 files hold

IsDirectory(d) == d = [n \in DOMAIN d |-> d[n]] /\ \A n \in DOMAIN d : IsList(d[n])

ASSUME PostAssumption ==
    /\ Protected \in Seq(Names) /\ IsInjective(Protected) /\ SliceSize \in Nat \ {0}
    /\ \A n \in Range(Protected) : IsList(Original[n])
    /\ \A download \in Downloads :
          Len(download.slices) \in Nat /\ IsDirectory(download.dir)
    /\ \A n \in Obfuscated : Extension[NzbFile[Extension[n]]] = Extension[n]

VARIABLES
    stage,
    config,
    dir, dest,      \* the working directory and the destination
    rs_packets,     \* [main : BOOLEAN, descriptions, ifscs : SUBSET Protected]
    rs_slices,      \* recovery slices in the PAR2 files
    par_result,     \* Par2Result, "None" without one
    archives,       \* archives still to be unpacked
    unpack_status,
    pending,        \* entries still to be moved
    move_status,
    told,           \* unpack_status the extensions were told
    start           \* ghost: the working directory as it was found

postVars == <<stage, config, dir, dest, rs_packets, rs_slices, par_result, archives,
              unpack_status, pending, move_status, told, start>>
packets == <<rs_packets, rs_slices>>
results == <<par_result, archives, unpack_status, pending, move_status, told>>

PostInit ==
    /\ stage = "Queued"
    /\ config \in Configs /\ dest \in {<<>>, NzbFile.bin :> <<>>}
    /\ \E download \in Downloads :
          dir = download.dir /\ rs_slices = download.slices /\ rs_packets = download.packets
    /\ par_result = "None" /\ archives = {} /\ unpack_status = "None"
    /\ pending = {} /\ move_status = "None" /\ told = "None" /\ start = dir
-----------------------------------------------------------------------------
WithExtension(ext) == {n \in DOMAIN dir : Extension[n] = ext}
HasPar2 == WithExtension("par2") # {}
Parsed == RecoverySet(rs_packets.descriptions, rs_packets.ifscs, rs_slices)

Renamed(from, to) ==
    [n \in (DOMAIN dir \ {from}) \union {to} |-> IF n = to THEN dir[from] ELSE dir[n]]
Without(gone) == [n \in DOMAIN dir \ gone |-> dir[n]]

Prefix(content) == SubSeq(content, 1, IF Len(content) < HashPrefix THEN Len(content) ELSE HashPrefix)

(* Mutant: the target may exist.                                           *)
MayRenameOver(n, entry) ==
    /\ n # entry.name /\ Extension[n] = Extension[entry.name]
    /\ Len(dir[n]) = entry.length /\ Prefix(dir[n]) = Prefix(Original[entry.name])

(* What deobfuscate_files may rename a file to.                            *)
MayRename(n, entry) ==
    /\ n # entry.name /\ Extension[n] = Extension[entry.name]
    /\ entry.name \notin DOMAIN dir
    /\ Len(dir[n]) = entry.length /\ Prefix(dir[n]) = Prefix(Original[entry.name])

(* One obfuscated file at a time, to the first entry that fits; a rename   *)
(* may fail.                                                               *)
deobfuscate_files ==
    LET entries == Parsed.files
        fits(n) == {i \in DOMAIN entries : MayRename(n, entries[i])}
        first(n) == CHOOSE i \in fits(n) : \A j \in fits(n) : i <= j
        candidates == {n \in DOMAIN dir \intersect Obfuscated : fits(n) # {}}
    IN /\ stage = "ParRenaming" /\ HasPar2 /\ rs_packets.main /\ candidates # {}
       /\ \E n \in candidates :
             dir' = Renamed(n, entries[first(n)].name)
       /\ UNCHANGED <<stage, config, dest, packets, results, start>>

Receive ==
    /\ stage = "Queued" /\ stage' = "ParRenaming"
    /\ UNCHANGED <<config, dir, dest, packets, results, start>>

ParRenamed ==
    /\ stage = "ParRenaming" /\ stage' = "ParVerifying"
    /\ UNCHANGED <<config, dir, dest, packets, results, start>>

(* Without a PAR2 file all is well; a recovery set that cannot be parsed   *)
(* leaves no result.                                                       *)
par_verify ==
    /\ stage = "ParVerifying"
    /\ par_result' = IF ~HasPar2 THEN "AllFilesOk"
                     ELSE IF rs_packets.main THEN native_verify(Parsed, dir) ELSE "None"
    /\ stage' = IF par_result' = "RepairNeeded" THEN "ParRepairing" ELSE "Renaming"
    /\ UNCHANGED <<config, dir, dest, packets, archives, unpack_status, pending,
                   move_status, told, start>>

par_repair ==
    /\ stage = "ParRepairing" /\ stage' = "Renaming"
    /\ \E report \in {native_repair(Parsed, dir)} :
          par_result' = report.result /\ dir' = report.disk
    /\ UNCHANGED <<config, dest, packets, archives, unpack_status, pending,
                   move_status, told, start>>

(* The only obfuscated file takes the name of the NZB, if that is free.    *)
deobfuscate_by_nzb_name ==
    /\ stage = "Renaming" /\ stage' = "Unpacking"
    /\ archives' = {}
    /\ LET obfuscated == DOMAIN dir \intersect Obfuscated
           target(n) == NzbFile[Extension[n]]
       IN dir' = IF Cardinality(obfuscated) = 1
                    /\ \A n \in obfuscated : target(n) \notin DOMAIN dir
                 THEN LET n == CHOOSE n \in obfuscated : TRUE IN Renamed(n, target(n))
                 ELSE dir
    /\ UNCHANGED <<config, dest, packets, par_result, unpack_status, pending,
                   move_status, told, start>>
-----------------------------------------------------------------------------
(* Unpacking stops at the first archive that fails.                        *)
AfterUnpacking == IF config.cleanup THEN "Cleanup" ELSE "Moving"

detect_archives ==
    /\ stage = "Unpacking" /\ archives' = UNION {WithExtension(x) : x \in {"rar", "7z", "zip"}}
    /\ IF archives' = {}
       THEN unpack_status' = "Success" /\ stage' = AfterUnpacking
       ELSE stage' = "Extracting" /\ UNCHANGED unpack_status
    /\ pending' = {}
    /\ UNCHANGED <<config, dir, dest, packets, par_result, move_status, told, start>>

(* One program or the other, by the extension.                             *)
Extracting(n) ==
    IF Extension[n] \in {"rar", "7z", "zip"} THEN {"Success", "Failure", "Password"}
    ELSE {"Failure"}

unpack(n) ==
    /\ stage = "Extracting" /\ n \in archives
    /\ \/ /\ "Success" \in Extracting(n)
          /\ dir' = [m \in DOMAIN dir \union {Unpacked[n]} |->
                        IF m = Unpacked[n] THEN <<>> ELSE dir[m]]
          /\ archives' = archives \ {n}
          /\ IF archives' = {}
             THEN unpack_status' = "Success" /\ stage' = AfterUnpacking
             ELSE UNCHANGED <<stage, unpack_status>>
       \/ /\ unpack_status' \in Extracting(n) \ {"Success"}
          /\ archives' = {} /\ stage' = AfterUnpacking /\ UNCHANGED dir
    /\ UNCHANGED <<config, dest, packets, par_result, pending, move_status, told, start>>

(* Whatever the unpacking came to; a file that cannot be removed ends it.  *)
should_remove(n) == Extension[n] \in {"par2", "rar"}

cleanup_archives ==
    /\ stage = "Cleanup" /\ stage' = "Moving"
    /\ \E gone \in SUBSET {n \in DOMAIN dir : should_remove(n)} : dir' = Without(gone)
    /\ UNCHANGED <<config, dest, packets, results, start>>
-----------------------------------------------------------------------------
(* The move: entry by entry, over what the destination has by that name.   *)
AfterMoving == IF config.extensions THEN "Extensions" ELSE "Reporting"

BeginMove ==
    /\ stage = "Moving"
    /\ IF config.in_place \/ DOMAIN dir = {}
       THEN /\ move_status' = "Success" /\ stage' = AfterMoving /\ UNCHANGED pending
       ELSE pending' = DOMAIN dir /\ stage' = "MovingFiles" /\ UNCHANGED move_status
    /\ UNCHANGED <<config, dir, dest, packets, par_result, archives, unpack_status, told, start>>

(* A rename, or across devices a copy whose source may stay behind.        *)
move_path(n) ==
    /\ stage = "MovingFiles" /\ n \in pending
    /\ dest' = [m \in DOMAIN dest \union {n} |-> IF m = n THEN dir[n] ELSE dest[m]]
    /\ dir' = Without({n}) \/ UNCHANGED dir
    /\ pending' = pending \ {n}
    /\ IF pending' = {} THEN move_status' = "Success" /\ stage' = AfterMoving
                        ELSE UNCHANGED <<stage, move_status>>
    /\ UNCHANGED <<config, packets, par_result, archives, unpack_status, told, start>>

MoveFails ==
    /\ stage = "MovingFiles" /\ move_status' = "Failure" /\ stage' = AfterMoving
    /\ pending' = {}
    /\ UNCHANGED <<config, dir, dest, packets, par_result, archives, unpack_status, told, start>>

run_post_process ==
    /\ stage = "Extensions" /\ stage' = "Reporting" /\ told' = "Success"
    /\ UNCHANGED <<config, dir, dest, packets, par_result, archives, unpack_status, pending,
                   move_status, start>>

report_done ==
    /\ stage = "Reporting" /\ stage' = "Finished"
    /\ UNCHANGED <<config, dir, dest, packets, results, start>>

PostNext ==
    \/ Receive \/ deobfuscate_files \/ ParRenamed \/ par_verify \/ par_repair
    \/ deobfuscate_by_nzb_name \/ detect_archives \/ \E n \in archives : unpack(n)
    \/ cleanup_archives \/ BeginMove \/ \E n \in pending : move_path(n)
    \/ MoveFails \/ run_post_process \/ report_done
-----------------------------------------------------------------------------
ParStatus ==
    CASE par_result \in {"AllFilesOk", "RepairComplete"} -> "Success"
      [] par_result \in {"RepairNeeded", "RepairFailed"} -> "Failure"
      [] OTHER -> "None"

Complete ==
    /\ HasPar2 /\ rs_packets.main
    /\ Range(Protected) \subseteq rs_packets.descriptions \intersect rs_packets.ifscs

Intact == \A n \in Range(Protected) : n \in DOMAIN dir /\ dir[n] = Original[n]

LostSlices(n) ==
    {k \in DOMAIN Slices(Original[n]) :
        \/ n \notin DOMAIN dir \/ k > DivCeil(Len(dir[n])) \/ Len(dir[n]) > Len(Original[n])
        \/ Padded(SliceOf(dir[n], k)) # Slices(Original[n])[k]}
SlicesNeeded == Cardinality(UNION {{n} \X LostSlices(n) : n \in Range(Protected)})

(* A file that ends inside a slice whose missing words are zero: the slice *)
(* is good for the verification and cannot be read by the repair.          *)
EndsInGoodSlice ==
    \E n \in DOMAIN dir \intersect Range(Protected) :
        LET content == dir[n]
            k == DivCeil(Len(content))
        IN /\ 0 < Len(content) /\ Len(content) < Len(Original[n])
           /\ Padded(SliceOf(content, k)) = Slices(Original[n])[k]

Sound(slice) == slice.data = RecoveryData(slice.exponent)

(* The first recovery slices, as many as are missing, do not tell what is  *)
(* missing: other words in the missing slices would have given the same.   *)
LostPlaces ==
    LET places == FlattenSeq([i \in DOMAIN Protected |->
                      [k \in DOMAIN Slices(Original[Protected[i]]) |-> <<Protected[i], k>>]])
    IN {j \in DOMAIN places : places[j][2] \in LostSlices(places[j][1])}

FirstSlicesAreAmbiguous ==
    LET places == SetToSeq(LostPlaces)
        weight == [i \in DOMAIN rs_slices |->
                      [c \in DOMAIN places |-> pow(Constant(places[c]), rs_slices[i].exponent)]]
        sum(d, w) == FoldLeft(LAMBDA x, c : xor[x][mul(d[c], w[c])], 0, [c \in DOMAIN d |-> c])
    IN \E d \in [DOMAIN places -> Word] :
           /\ \E c \in DOMAIN places : d[c] # 0
           /\ \A i \in DOMAIN rs_slices : i <= Len(places) => sum(d, weight[i]) = 0

(* With all its packets, a recovery set is good for what it promises: the  *)
(* result is a success just when the files are what they were, and short   *)
(* of that there were too few slices, a spoilt one, a file that ends       *)
(* inside a good slice, or first slices that do not tell what is missing:  *)
(* equal exponents, or constants whose powers fall together.               *)
SuccessMeansIntact == stage = "Renaming" /\ Complete => (ParStatus = "Success" <=> Intact)
NeededMeansTooFew ==
    stage = "Renaming" /\ Complete /\ par_result = "RepairNeeded" => SlicesNeeded > Len(rs_slices)
FailureHasACause ==
    stage = "Renaming" /\ Complete /\ par_result = "RepairFailed" =>
        \/ EndsInGoodSlice \/ \E i \in DOMAIN rs_slices : ~Sound(rs_slices[i])
        \/ FirstSlicesAreAmbiguous

ParResultIsSound == SuccessMeansIntact /\ NeededMeansTooFew /\ FailureHasACause

(* Unless files were repaired, every file that was downloaded is still     *)
(* there when all is done, here or at the destination, except for PAR2     *)
(* files and archives.                                                     *)
FilesSurvive ==
    stage = "Finished" /\ par_result \notin {"RepairComplete", "RepairFailed"} =>
        \A n \in DOMAIN start :
            should_remove(n) \/ start[n] \in Range(dir) \union Range(dest)

(* Archives are deleted after they were unpacked.                          *)
ArchivesOutliveFailure ==
    stage = "Finished" /\ unpack_status # "Success" =>
        \A n \in DOMAIN start :
            Extension[n] \in {"rar", "zip"} => n \in DOMAIN dir \union DOMAIN dest
=============================================================================
