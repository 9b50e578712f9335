------------------------------ MODULE Par2Set ------------------------------
(***************************************************************************)
(* bergamot-par2: arithmetic of GF(2^Width), verification of a recovery    *)
(* set and its repair, as operators on the contents of the working         *)
(* directory.  A content is a sequence of words, a word an element of the  *)
(* field; the code has Width = 16 and two bytes to a word.  A checksum is  *)
(* the padded slice it is of.                                              *)
(***************************************************************************)
EXTENDS Naturals, SequencesExt, Selection

CONSTANTS
    Width, Poly,    \* the field and its PRIMITIVE_POLY
    SliceSize,      \* words of a slice
    Protected,      \* sequence of the names of the protected files
    Original        \* [names -> their contents]

LIMIT == 2 ^ Width - 1
Word == 0..LIMIT
Half == 2 ^ (Width \div 2)
-----------------------------------------------------------------------------
(* Galois field: tables of powers and logarithms of 2.                     *)
Bit(a, k) == (a \div 2 ^ k) % 2
Xor(a, b) ==
    LET low[k \in 0..(Width + 1)] ==
            IF k = 0 THEN 0
            ELSE low[k - 1] + (IF Bit(a, k - 1) # Bit(b, k - 1) THEN 2 ^ (k - 1) ELSE 0)
    IN low[Width + 1]
xor == [a \in Word |-> [b \in Word |-> Xor(a, b)]]

exp ==
    LET e[l \in 0..(2 * LIMIT - 1)] ==
            LET double == 2 * e[l - 1]
            IN CASE l = 0 -> 1
                 [] l \in 1..(LIMIT - 1) -> IF double > LIMIT THEN Xor(double, Poly) ELSE double
                 [] OTHER -> e[l - LIMIT]
    IN e

log == [w \in Word |-> IF w = 0 THEN 0 ELSE CHOOSE l \in 0..(LIMIT - 1) : exp[l] = w]

mul(a, b) == IF a = 0 \/ b = 0 THEN 0 ELSE exp[log[a] + log[b]]
inv(a) == exp[LIMIT - log[a]]
pow(a, n) == IF n = 0 THEN 1 ELSE IF a = 0 THEN 0 ELSE exp[(log[a] * n) % LIMIT]

(* Products with one coefficient, by the halves of the other factor.       *)
Products ==
    [c \in Word |-> [lo |-> [i \in 0..(Half - 1) |-> mul(c, i)],
                     hi |-> [i \in 0..(Half - 1) |-> mul(c, i * Half)]]]
mul_u16(c, w) == xor[Products[c].lo[w % Half]][Products[c].hi[w \div Half]]

muladd(dst, src, c) == [i \in DOMAIN dst |-> xor[dst[i]][mul_u16(c, src[i])]]
mul_slice_inplace(dst, c) == [i \in DOMAIN dst |-> mul_u16(c, dst[i])]

gcd[a \in Nat, b \in Nat] == IF b = 0 THEN a ELSE gcd[b, a % b]

(* Mutant: every exponent is taken.                                        *)
compute_base_any(index) == pow(2, index)

(* Powers of 2 whose exponents have no factor in common with LIMIT.        *)
compute_base(index) ==
    LET logbase[i \in Nat] ==
            LET from == IF i = 0 THEN 0 ELSE logbase[i - 1] + 1
            IN CHOOSE l \in from..LIMIT :
                  gcd[LIMIT, l] = 1 /\ \A m \in from..(l - 1) : gcd[LIMIT, m] # 1
    IN pow(2, logbase[index])
-----------------------------------------------------------------------------
(* The recovery set, as parsed from the PAR2 files of the directory: the   *)
(* protected files with a description, their checksums when they have an   *)
(* IFSC packet, and the recovery slices.                                   *)
Padded(s) == [i \in 1..SliceSize |-> IF i <= Len(s) THEN s[i] ELSE 0]
DivCeil(n) == (n + SliceSize - 1) \div SliceSize
SliceOf(content, k) ==
    SubSeq(content, (k - 1) * SliceSize + 1,
           IF k * SliceSize < Len(content) THEN k * SliceSize ELSE Len(content))
Slices(content) == [k \in 1..DivCeil(Len(content)) |-> Padded(SliceOf(content, k))]

Entry(name, ifscs) ==
    [name |-> name, length |-> Len(Original[name]),
     sums |-> IF name \in ifscs THEN Slices(Original[name]) ELSE <<>>]

RecoverySet(descriptions, ifscs, slices) ==
    [files |-> LET names == Selected(Protected, descriptions)
               IN [i \in DOMAIN names |-> Entry(names[i], ifscs)],
     slices |-> slices]

(* The data of a recovery slice, by the PAR2 specification: the slices of  *)
(* the files in order, each times its constant to the exponent, where the  *)
(* constants are the powers of 2 by the numbers prime to LIMIT.            *)
Constant(j) ==
    exp[CHOOSE n \in 1..LIMIT :
           gcd[LIMIT, n] = 1 /\ Cardinality({m \in 1..n : gcd[LIMIT, m] = 1}) = j]

ProtectedSlices == FlattenSeq([i \in DOMAIN Protected |-> Slices(Original[Protected[i]])])

RecoveryData(exponent) ==
    FoldLeft(LAMBDA data, j : [i \in 1..SliceSize |->
                 xor[data[i]][mul(ProtectedSlices[j][i], pow(Constant(j), exponent))]],
             [i \in 1..SliceSize |-> 0], [j \in DOMAIN ProtectedSlices |-> j])

Bases == [g \in DOMAIN ProtectedSlices |-> compute_base(g - 1)]

slice_count(entry) == DivCeil(entry.length)
-----------------------------------------------------------------------------
(* Verification of an entry: Ok, Missing or Damaged with its bad slices.   *)
AllSlices(entry) == 1..slice_count(entry)
BadSlices(entry, content, upto) ==
    {k \in DOMAIN entry.sums : k <= upto /\ Padded(SliceOf(content, k)) # entry.sums[k]}

verify_file_size_mismatch(entry, content) ==
    IF Len(content) > entry.length THEN AllSlices(entry)
    ELSE LET present == DivCeil(Len(content))
         IN BadSlices(entry, content, present)
               \union {k \in AllSlices(entry) : k > present}

Damaged(bad) == [kind |-> "Damaged", bad |-> bad]
VerifiedOk == [kind |-> "Ok", bad |-> {}]

(* With the right length a file without bad slices is Ok, whatever its MD5.*)
verify_one_entry(entry, disk) ==
    IF entry.name \notin DOMAIN disk
    THEN [kind |-> "Missing", bad |-> AllSlices(entry)]
    ELSE LET content == disk[entry.name]
             bad == BadSlices(entry, content, slice_count(entry))
         IN IF Len(content) # entry.length
            THEN Damaged(verify_file_size_mismatch(entry, content))
            ELSE IF bad # {} THEN Damaged(bad) ELSE VerifiedOk

verify_recovery_set(rs, disk) ==
    [i \in DOMAIN rs.files |-> verify_one_entry(rs.files[i], disk)]

all_ok(verify) == \A i \in DOMAIN verify : verify[i].kind = "Ok"
-----------------------------------------------------------------------------
(* Repair.                                                                 *)
GlobalSlices(rs) ==
    FoldLeft(LAMBDA all, i : all \o [k \in 1..slice_count(rs.files[i]) |-> [file |-> i, local |-> k]],
             <<>>, [i \in DOMAIN rs.files |-> i])

MissingGlobals(globals, verify) ==
    Selected([g \in DOMAIN globals |-> g],
             {g \in DOMAIN globals : globals[g].local \in verify[globals[g].file].bad})

Present(globals, missing) == DOMAIN globals \ Range(missing)

SwapRows(s, p, r) == [s EXCEPT ![p] = s[r], ![r] = s[p]]

(* One column: the first row that can be the pivot is subtracted from all  *)
(* others, once it is scaled.                                              *)
Scaled(st, p) ==
    LET scale == inv(st.matrix[p][p])
    IN [st EXCEPT !.matrix[p] = mul_slice_inplace(@, scale), !.rhs[p] = mul_slice_inplace(@, scale)]

Subtracted(st, p) ==
    LET factor(r) == st.matrix[r][p]
    IN [st EXCEPT
           !.matrix = [r \in DOMAIN @ |-> IF r = p THEN @[r] ELSE muladd(@[r], @[p], factor(r))],
           !.rhs = [r \in DOMAIN @ |-> IF r = p THEN @[r] ELSE muladd(@[r], @[p], factor(r))]]

Eliminate(st, p) ==
    LET rows == {r \in p..Len(st.matrix) : st.matrix[r][p] # 0}
        pivot == CHOOSE r \in rows : \A q \in rows : r <= q
        swapped == [st EXCEPT !.matrix = SwapRows(@, p, pivot), !.rhs = SwapRows(@, p, pivot)]
    IN IF st.singular \/ rows = {} THEN [st EXCEPT !.singular = TRUE]
       ELSE Subtracted(Scaled(swapped, p), p)

gauss_eliminate(matrix, rhs) ==
    FoldLeft(Eliminate, [singular |-> FALSE, matrix |-> matrix, rhs |-> rhs],
             [p \in DOMAIN matrix |-> p])

(* What is left of the recovery slices without the slices that are there,  *)
(* solved for those that are missing.                                      *)
Solved(rs, disk, globals, missing) ==
    LET k == Len(missing)
        exponent(i) == rs.slices[i].exponent
        present(g) == Padded(SliceOf(disk[rs.files[globals[g].file].name], globals[g].local))
        known(i) ==
            FoldLeft(LAMBDA data, g : muladd(data, present(g), pow(Bases[g], exponent(i))),
                     rs.slices[i].data, SetToSeq(Present(globals, missing)))
    IN gauss_eliminate([i \in 1..k |-> [c \in 1..k |-> pow(Bases[missing[c]], exponent(i))]],
                       [i \in 1..k |-> known(i)])

(* A good slice is read in full, whatever of it is on disk.                *)
Readable(entry, local, disk) ==
    Len(disk[entry.name]) >= IF local * SliceSize < entry.length THEN local * SliceSize
                             ELSE entry.length

(* The file is cut or extended to its length before a slice is written.    *)
WriteSlice(rs, disk, g, data) ==
    LET entry == rs.files[g.file]
        old == IF entry.name \in DOMAIN disk THEN disk[entry.name] ELSE <<>>
        at == (g.local - 1) * SliceSize
    IN [n \in DOMAIN disk \union {entry.name} |->
           IF n # entry.name THEN disk[n]
           ELSE [i \in 1..entry.length |->
                    IF i > at /\ i <= at + SliceSize THEN data[i - at]
                    ELSE IF i <= Len(old) THEN old[i] ELSE 0]]

WriteSlices(rs, disk, globals, missing, data, k) ==
    FoldLeft(LAMBDA dsk, c : WriteSlice(rs, dsk, globals[missing[c]], data[c]), disk,
             [c \in 1..k |-> c])

Report(result, disk) == [result |-> result, disk |-> disk]

Rebuild(rs, disk, globals, missing) ==
    LET k == Len(missing)
        solved == Solved(rs, disk, globals, missing)
    IN IF k = 0 THEN Report("Ok", disk)
       ELSE IF k > Len(rs.slices) THEN Report("NotEnoughRecoverySlices", disk)
       ELSE IF \E g \in Present(globals, missing) :
                   ~Readable(rs.files[globals[g].file], globals[g].local, disk)
       THEN Report("Io", disk)
       ELSE IF solved.singular THEN Report("SingularMatrix", disk)
       ELSE Report("Ok", WriteSlices(rs, disk, globals, missing, solved.rhs, k))

repair_recovery_set(rs, verify, disk) ==
    LET globals == GlobalSlices(rs)
    IN Rebuild(rs, disk, globals, MissingGlobals(globals, verify))
-----------------------------------------------------------------------------
(* The engine's answers to post-processing.                                *)
native_verify(rs, disk) ==
    IF all_ok(verify_recovery_set(rs, disk)) THEN "AllFilesOk" ELSE "RepairNeeded"

native_repair(rs, disk) ==
    LET verify == verify_recovery_set(rs, disk)
        report == repair_recovery_set(rs, verify, disk)
    IN IF all_ok(verify) THEN Report("AllFilesOk", disk)
       ELSE CASE report.result = "Ok" ->
                    Report(IF all_ok(verify_recovery_set(rs, report.disk))
                           THEN "RepairComplete" ELSE "RepairFailed", report.disk)
              [] report.result = "NotEnoughRecoverySlices" -> Report("RepairNeeded", disk)
              [] OTHER -> Report("RepairFailed", disk)
=============================================================================
