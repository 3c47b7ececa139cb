------------------------------- MODULE TextScan -------------------------------
(***************************************************************************)
(* Reading text: numbers (core/me_string.cpp), and the paths of files and    *)
(* resources (core/me_filesystem.cpp, asset/me_asset.cpp) with the search of *)
(* a file in the folders above a path.                                       *)
(*                                                                           *)
(* A text is a sequence of characters. Integers have Bits bits and wrap, the *)
(* signed ones too (the build's outcome for the overflow of the minimum).    *)
(* A float is [m, e], m times ten to the e: rounding is left out.            *)
(***************************************************************************)
EXTENDS Integers, Sequences, FiniteSets

LOCAL INSTANCE SequencesExt

CONSTANTS Bits,      \* width of an integer
          Tails,     \* what may follow a number
          Relatives, \* paths below the resource folder, with / or \ between names
          Resources, \* the resource folder
          Folders    \* folders a file may be in, from the root down, as names

VARIABLES input, \* the text, how it was made, and the files there are
          got    \* what was read, or where the search is

vars == <<input, got>>

Digits == <<"0", "1", "2", "3", "4", "5", "6", "7", "8", "9">>
DigitSet == ToSet(Digits)
DigitOf(c) == (CHOOSE i \in 1 .. 10 : Digits[i] = c) - 1

-----------------------------------------------------------------------------
(* Scanning. *)

OffsetView(s, n) == SubSeq(s, n + 1, Len(s))

\* EatCharsOffset: how many characters s begins with that are in the set.
EatCharsOffset(s, set) ==
    CHOOSE n \in 0 .. Len(s) : /\ \A i \in 1 .. n : s[i] \in set
                               /\ n < Len(s) => s[n + 1] \notin set

EatChars(s, set) == OffsetView(s, EatCharsOffset(s, set))

Occurs(h, n) == {i \in 0 .. Len(h) - Len(n) : SubSeq(h, i + 1, i + Len(n)) = n}
Least(S)    == IF S = {} THEN -1 ELSE CHOOSE i \in S : \A j \in S : i <= j
Greatest(S) == IF S = {} THEN -1 ELSE CHOOSE i \in S : \A j \in S : i >= j

\* FindInString from an offset, and FindInStringRev from an offset at the back.
Find(h, n, offset) == Least({i \in Occurs(h, n) : i >= offset})
FindRev(h, n, back) == Greatest({i \in Occurs(h, n) : i <= Len(h) - Len(n) - back})

-----------------------------------------------------------------------------
(* Numbers. *)

Modulus == 2 ^ Bits
Wrap(signed, n) == LET u == n % Modulus
                   IN IF signed /\ u >= 2 ^ (Bits - 1) THEN u - Modulus ELSE u

\* The value of a run of digits, added up in the type's arithmetic.
DigitsValue(signed, s) ==
    FoldLeft(LAMBDA n, c : Wrap(signed, n * 10 + DigitOf(c)), 0, s)

\* The sign: unsigned numbers have no minus.
AfterSign(signed, s) ==
    IF s # <<>> /\ (s[1] = "+" \/ (signed /\ s[1] = "-")) THEN Tail(s) ELSE s

\* Mutant: the sign is seen before the spaces are gone.
ParseSignFirst(signed, text) ==
    LET s == AfterSign(signed, text)
        d == EatCharsOffset(EatChars(s, {" "}), DigitSet)
        n == DigitsValue(signed, SubSeq(EatChars(s, {" "}), 1, d))
    IN [value |-> IF text # <<>> /\ signed /\ text[1] = "-" THEN Wrap(signed, -n) ELSE n,
        rest |-> OffsetView(EatChars(s, {" "}), d)]

\* StringParseInt32, UInt32, Int64, UInt64.
ParseInt(signed, text) ==
    LET t == EatChars(text, {" "})
        s == AfterSign(signed, t)
        d == EatCharsOffset(s, DigitSet)
        n == DigitsValue(signed, SubSeq(s, 1, d))
    IN [value |-> IF t # <<>> /\ signed /\ t[1] = "-" THEN Wrap(signed, -n) ELSE n,
        rest |-> OffsetView(s, d)]

\* StringToUint: the largest number there is when the digits say more.
ToUint(text) ==
    LET s == EatChars(text, {" "})
    IN FoldLeft(LAMBDA n, c : IF n * 10 + DigitOf(c) >= Modulus THEN Modulus - 1
                              ELSE n * 10 + DigitOf(c),
                0, SubSeq(s, 1, EatCharsOffset(s, DigitSet)))

Number(s) == FoldLeft(LAMBDA n, c : n * 10 + DigitOf(c), 0, s)

\* StringParseFloat, StringParseDouble: whole part, fraction, exponent; what is
\* neither of them is left, "inf" and "nan" too.
ParseFloat(text) ==
    LET s == AfterSign(TRUE, EatChars(text, {" "}))
        a == EatCharsOffset(s, DigitSet)
        f == IF a < Len(s) /\ s[a + 1] = "." THEN a + 1 ELSE a
        b == IF f = a THEN a ELSE f + EatCharsOffset(OffsetView(s, f), DigitSet)
        hasExp == b < Len(s) /\ s[b + 1] \in {"e", "E"}
        x == AfterSign(TRUE, OffsetView(s, b + 1))
        p == EatCharsOffset(x, DigitSet)
        exp == IF ~hasExp THEN 0
               ELSE IF b + 1 < Len(s) /\ s[b + 2] = "-" THEN -Number(SubSeq(x, 1, p))
               ELSE Number(SubSeq(x, 1, p))
        m == Number(SubSeq(s, 1, a) \o SubSeq(s, f + 1, b))
    IN [value |-> [m |-> IF EatChars(text, {" "})[1] = "-" THEN -m ELSE m, e |-> exp - (b - f)],
        rest |-> IF hasExp THEN OffsetView(x, p) ELSE OffsetView(s, b)]

-----------------------------------------------------------------------------
(* Paths. *)

Slash == <<"/">>

\* meFsNormalizePathSeperators
Normalize(p) == [i \in DOMAIN p |-> IF p[i] = "\\" THEN "/" ELSE p[i]]

\* meFsGetFileFromFullPath
FileFromFullPath(p) == OffsetView(p, FindRev(p, Slash, 0) + 1)

\* msFsGetDirFromPath: a last name without a dot is taken for a folder.
DirFromPath(path) ==
    LET p == Normalize(path)
        last == FindRev(p, Slash, 0)
    IN IF last = -1 \/ Find(p, <<".">>, last + 1) = -1 THEN p ELSE SubSeq(p, 1, last)

\* meAssetGetAbsPathForResource, meAssetGetRelPathForResource
AbsPath(p) == LET n == Normalize(p)
              IN IF Find(n, Resources, 0) = -1 THEN Resources \o Slash \o n ELSE n
RelPath(p) == IF Find(p, Resources, 0) = -1 THEN p
              ELSE EatChars(OffsetView(p, Len(Resources)), {"/"})

\* meFsScanOutForFile takes the innermost folder out; none when there is only
\* one separator.
Chopped(p) ==
    LET end == FindRev(p, Slash, 0)
        start == IF end = -1 THEN -1 ELSE FindRev(p, Slash, Len(p) - end)
    IN IF start = -1 THEN <<>> ELSE SubSeq(p, 1, start) \o OffsetView(p, end)

-----------------------------------------------------------------------------
(* The texts there are, and reading them. *)

DigitsOf(n) == IF n < 10 THEN <<Digits[n + 1]>> ELSE <<Digits[n \div 10 + 1], Digits[(n % 10) + 1]>>
Signed(n) == IF n < 0 THEN <<"-">> \o DigitsOf(-n) ELSE DigitsOf(n)

Ints(signed) == IF signed THEN -(2 ^ (Bits - 1)) .. 2 ^ (Bits - 1) - 1 ELSE 0 .. Modulus - 1

IntTexts == {[of |-> "int", signed |-> s, value |-> n, tail |-> t,
              text |-> lead \o Signed(n) \o t] :
                s \in BOOLEAN, n \in Ints(TRUE) \union Ints(FALSE), t \in Tails,
                lead \in {<<>>, <<" ">>, <<" ", " ">>}}

\* A float as it is printed: digits, a point, digits, and an exponent.
FloatTexts == {[of |-> "float", value |-> [m |-> sgn * (10 * a + b), e |-> x - 1], tail |-> t,
                text |-> (IF sgn < 0 THEN <<"-">> ELSE <<>>) \o DigitsOf(a) \o <<".">> \o DigitsOf(b)
                         \o (IF x = 0 THEN <<>> ELSE <<"e">> \o Signed(x)) \o t] :
                  sgn \in {-1, 1}, a \in {1, 12}, b \in {0, 5}, x \in {-2, 0, 3}, t \in Tails}

JoinedFolders(fs) == FlattenSeq([i \in DOMAIN fs |-> <<fs[i], "/">>])
PathTexts == {[of |-> "path", text |-> p] : p \in Relatives}
SearchTexts == {[of |-> "search", text |-> JoinedFolders(Folders) \o <<"f">>, there |-> T] :
                  T \in SUBSET (1 .. Len(Folders))}

NotRead == [of |-> "nothing"]

Init == /\ input \in {r \in IntTexts : r.value \in Ints(r.signed)}
                       \union FloatTexts \union PathTexts \union SearchTexts
        /\ got = NotRead

ReadNumber ==
    /\ got = NotRead /\ input.of \in {"int", "float"}
    /\ got' = [of |-> "number",
               read |-> IF input.of = "float" THEN ParseFloat(input.text)
                        ELSE ParseInt(input.signed, input.text),
               version |-> IF input.of = "float" THEN 0 ELSE ToUint(input.text)]
    /\ UNCHANGED input

ReadPath ==
    /\ got = NotRead /\ input.of = "path"
    /\ got' = [of |-> "path", dir |-> DirFromPath(input.text),
               file |-> FileFromFullPath(Normalize(input.text)),
               again |-> RelPath(AbsPath(input.text)),
               twice |-> AbsPath(AbsPath(input.text))]
    /\ UNCHANGED input

\* The file is in the folders numbered in there, from the root.
ExistsAt(p) == \E n \in input.there : p = JoinedFolders(SubSeq(Folders, 1, n)) \o <<"f">>

\* One look of the search: found, or the next folder out, or none left.
ScanOut ==
    /\ input.of = "search" /\ got.of # "found" /\ got.of # "absent"
    /\ LET at == IF got = NotRead THEN input.text ELSE got.at
       IN got' = IF ExistsAt(at) THEN [of |-> "found", at |-> at]
                 ELSE IF Chopped(at) = <<>> THEN [of |-> "absent"]
                 ELSE [of |-> "looking", at |-> Chopped(at)]
    /\ UNCHANGED input

Next == ReadNumber \/ ReadPath \/ ScanOut

Spec == Init /\ [][Next]_vars

-----------------------------------------------------------------------------
(* Properties. *)

\* Every text is of one of four kinds, and what was read of it too.
TypeOK == /\ input.of \in {"int", "float", "path", "search"}
          /\ got.of \in {"nothing", "number", "path", "looking", "found", "absent"}

SameFloat(v, w) == LET k == IF v.e < w.e THEN v.e ELSE w.e
                   IN v.m * 10 ^ (v.e - k) = w.m * 10 ^ (w.e - k)

\* A number that was printed is read back, the least signed one too, and what
\* follows it is left to the next reader.
NumbersReadBack ==
    got.of = "number" =>
        /\ got.read.rest = input.tail
        /\ input.of = "int" => got.read.value = input.value
        /\ input.of = "float" => SameFloat(got.read.value, input.value)
        /\ (input.of = "int" /\ input.value >= 0) => got.version = input.value

\* Folder and file make up the path again, and making a resource's path
\* absolute and relative again, or absolute twice, changes nothing.
PathsComeBack ==
    got.of = "path" =>
        LET p == Normalize(input.text)
        IN /\ Find(p, Slash, 0) # -1 /\ Find(got.file, <<".">>, 0) # -1 =>
                 got.dir \o Slash \o got.file = p
           /\ got.again = p
           /\ got.twice = AbsPath(input.text)

\* The search finds the file in the innermost of the folders that have it, and
\* gives up only when none has.
NearestFileIsFound ==
    /\ got.of = "found" =>
          got.at = JoinedFolders(SubSeq(Folders, 1, Greatest(input.there))) \o <<"f">>
    /\ got.of = "absent" => input.there = {}
=============================================================================
