----------------------------- MODULE FieldsCodec -----------------------------
(***************************************************************************)
(* The form-field conversions of src/src/curl_connect.cpp:                 *)
(* pairs_to_fields_str (lines 853-865) as an operator, and the do-while    *)
(* loop of fields_str_to_map (lines 868-894) as a state machine, one step *)
(* per '&'-separated segment.  Strings are sequences of characters over a *)
(* small alphabet that contains the two separators.                        *)
(*                                                                         *)
(* The header conversions of CurlConnectionImpl_ as operators: the lines  *)
(* ADD_headers appends to the header list (lines 309-327) and GET_headers *)
(* reading them back (lines 330-345), over an alphabet with ':' and ' '.  *)
(***************************************************************************)
EXTENDS Naturals, Sequences, SequencesExt

CONSTANTS
    Chars,      \* the alphabet; contains "=" and "&"
    MaxLen,     \* longest string parsed
    MaxPart,    \* longest key or value of a pair
    MaxPairs,   \* longest pair list encoded
    Absent,     \* no pair list behind the parsed string
    HeaderChars,    \* the alphabet of header names and values; contains ":" and " "
    MaxHeaderPart,  \* longest header name or value
    MaxHeaderList   \* most headers added to one list

ASSUME {"=", "&"} \subseteq Chars /\ {":", " "} \subseteq HeaderChars

Strings(n) == BoundedSeq(Chars, n)

PairLists == BoundedSeq(Strings(MaxPart) \X Strings(MaxPart), MaxPairs)

\* Mutant: the erase takes the last two characters instead of one.
pairs_to_fields_str_EraseTwo(ps) ==
    LET s == FoldLeft(LAMBDA acc, p : acc \o p[1] \o <<"=">> \o p[2] \o <<"&">>,
                      <<>>, ps)
    IN IF s = <<>> THEN s ELSE SubSeq(s, 1, Len(s) - 2)

\* pairs_to_fields_str: "k=v&" for every pair, then the last character is
\* erased when the string is not empty.
pairs_to_fields_str(ps) ==
    LET s == FoldLeft(LAMBDA acc, p : acc \o p[1] \o <<"=">> \o p[2] \o <<"&">>,
                      <<>>, ps)
    IN IF s = <<>> THEN s ELSE SubSeq(s, 1, Len(s) - 1)

\* First index at or after `from` holding c, or Len(s) + 1 (find / find_first_of).
FindFrom(s, from, c) ==
    LET hits == {i \in from..Len(s) : s[i] = c}
    IN IF hits = {} THEN Len(s) + 1 ELSE Min(hits)

\* The ": " that ADD_headers puts between a header's name and value.
HeaderSep == <<":", " ">>

Headers == BoundedSeq(HeaderChars, MaxHeaderPart) \X BoundedSeq(HeaderChars, MaxHeaderPart)

\* ADD_headers on a handle that is open: every header, in order, becomes the
\* line name ": " value appended to the list _header already holds (an
\* empty vector returns before any change, which is the same list).
ADD_headers(list, hs) ==
    list \o [i \in 1..Len(hs) |-> hs[i][1] \o HeaderSep \o hs[i][2]]

\* Mutant: GET_headers splits a line at its first ':' and skips two.
GET_headers_AtColon(list) ==
    IF \E i \in 1..Len(list) : ":" \notin ToSet(list[i])
    THEN "malformed header"
    ELSE [i \in 1..Len(list) |->
            LET pos == FindFrom(list[i], 1, ":")
            IN <<SubSeq(list[i], 1, pos - 1), SubSeq(list[i], pos + 2, Len(list[i]))>>]

\* GET_headers: each line of the list is split at its first ": " into name
\* and value; a line without ": " throws CurlException("malformed header"),
\* which is the result here.
GET_headers(list) ==
    IF \E i \in 1..Len(list) : HeaderSep \notin SubSeqs(list[i])
    THEN "malformed header"
    ELSE [i \in 1..Len(list) |->
            LET pos == IndexFirstSubSeq(HeaderSep, list[i])
            IN <<SubSeq(list[i], 1, pos - 1), SubSeq(list[i], pos + 2, Len(list[i]))>>]

VARIABLES
    fstr,       \* the string being parsed
    src,        \* the pair list it was made from, or Absent
    b,          \* the iterator b, as an index into fstr
    res,        \* the result vector
    done,       \* the loop has broken out
    hdr,        \* the lines of the header list _header
    hin         \* the headers passed to add_headers so far, or Absent

vars == <<fstr, src, b, res, done, hdr, hin>>

\* The input: any short string, or the encoding of a short pair list, to
\* parse; or a handle with no header list yet, on which add_headers is
\* called (the string parsed is then empty).
Init ==
    /\ \/ fstr \in Strings(MaxLen) /\ src = Absent /\ hin = Absent
       \/ \E ps \in PairLists : src = ps /\ fstr = pairs_to_fields_str(ps) /\ hin = Absent
       \/ fstr = <<>> /\ src = Absent /\ hin = <<>>
    /\ b = 1
    /\ res = <<>>
    /\ done = FALSE
    /\ hdr = <<>>

\* add_headers(hs) on the open handle: ADD_headers appends the lines.
AddHeaders ==
    /\ hin # Absent
    /\ \E hs \in BoundedSeq(Headers, MaxHeaderList - Len(hin)) :
        /\ hdr' = ADD_headers(hdr, hs)
        /\ hin' = hin \o hs
    /\ UNCHANGED <<fstr, src, b, res, done>>

\* Mutant: a segment without '=' is kept as a key with an empty value.
ParseSegment_KeepBare ==
    LET e   == FindFrom(fstr, b, "&")
        seg == SubSeq(fstr, b, e - 1)
        sep == FindFrom(seg, 1, "=")
    IN
    /\ ~done
    /\ res' = IF seg = <<>> THEN res
              ELSE Append(res, <<SubSeq(seg, 1, sep - 1), SubSeq(seg, sep + 1, Len(seg))>>)
    /\ done' = (e = Len(fstr) + 1)
    /\ b' = e + 1
    /\ UNCHANGED <<fstr, src, hdr, hin>>

\* Mutant: the key ends at the last '=' of the segment.
ParseSegment_LastEq ==
    LET e   == FindFrom(fstr, b, "&")
        seg == SubSeq(fstr, b, e - 1)
        eqs == {i \in 1..Len(seg) : seg[i] = "="}
        sep == IF eqs = {} THEN Len(seg) + 1 ELSE Max(eqs)
    IN
    /\ ~done
    /\ res' = IF seg # <<>> /\ sep # Len(seg) + 1
              THEN Append(res, <<SubSeq(seg, 1, sep - 1), SubSeq(seg, sep + 1, Len(seg))>>)
              ELSE res
    /\ done' = (e = Len(fstr) + 1)
    /\ b' = e + 1
    /\ UNCHANGED <<fstr, src, hdr, hin>>

\* Mutant: b moves two characters past the '&' instead of one.
ParseSegment_SkipTwo ==
    LET e   == FindFrom(fstr, b, "&")
        seg == SubSeq(fstr, b, e - 1)
        sep == FindFrom(seg, 1, "=")
    IN
    /\ ~done
    /\ res' = IF seg # <<>> /\ sep # Len(seg) + 1
              THEN Append(res, <<SubSeq(seg, 1, sep - 1), SubSeq(seg, sep + 1, Len(seg))>>)
              ELSE res
    /\ done' = (e = Len(fstr) + 1)
    /\ b' = e + 2
    /\ UNCHANGED <<fstr, src, hdr, hin>>

\* One iteration of the do-while loop: the segment from b to the next '&'
\* (or the end); a non-empty segment with an '=' adds the pair split at its
\* first '='; at the end of the string the loop breaks, else b moves past
\* the '&'.
ParseSegment ==
    LET e   == FindFrom(fstr, b, "&")
        seg == SubSeq(fstr, b, e - 1)
        sep == FindFrom(seg, 1, "=")
    IN
    /\ ~done
    /\ res' = IF seg # <<>> /\ sep # Len(seg) + 1
              THEN Append(res, <<SubSeq(seg, 1, sep - 1), SubSeq(seg, sep + 1, Len(seg))>>)
              ELSE res
    /\ done' = (e = Len(fstr) + 1)
    /\ b' = e + 1
    /\ UNCHANGED <<fstr, src, hdr, hin>>

Next == ParseSegment \/ AddHeaders

Spec == Init /\ [][Next]_vars

-----------------------------------------------------------------------------
(* Properties.                                                             *)

\* Types; while the loop runs, b never points past the end of the string
\* (the iterator after the last character is the furthest it may go).
TypeOK ==
    /\ fstr \in Strings(MaxLen) \cup {pairs_to_fields_str(ps) : ps \in PairLists}
    /\ res \in Seq(Seq(Chars) \X Seq(Chars))
    /\ done \in BOOLEAN
    /\ b \in 1..Len(fstr) + 2
    /\ ~done => b <= Len(fstr) + 1
    /\ hdr \in Seq(Seq(HeaderChars))
    /\ hin \in Seq(Headers) \cup {Absent}

\* Reference reading of a fields string, independent of the loop: cut it
\* at every '&', drop the empty pieces and those with no '=', and split
\* each remaining piece at its first '='.
Cuts(s) == SetToSortSeq({0, Len(s) + 1} \cup {i \in 1..Len(s) : s[i] = "&"}, <)

Pieces(s) ==
    LET c == Cuts(s)
    IN [k \in 1..Len(c) - 1 |-> SubSeq(s, c[k] + 1, c[k + 1] - 1)]

AsPair(p) ==
    LET i == CHOOSE i \in 1..Len(p) : p[i] = "=" /\ \A j \in 1..i - 1 : p[j] # "="
    IN <<SubSeq(p, 1, i - 1), SubSeq(p, i + 1, Len(p))>>

FieldsRef(s) ==
    LET keep == SelectSeq(Pieces(s), LAMBDA p : \E i \in 1..Len(p) : p[i] = "=")
    IN [k \in 1..Len(keep) |-> AsPair(keep[k])]

\* Spec 8: when fields_str_to_map returns, its result is the reference
\* reading: empty segments ("&&", a leading or trailing '&') are skipped
\* and a segment without '=' is dropped, whatever the string.
ParseMatchesReference == done => res = FieldsRef(fstr)

\* A pair list whose keys contain neither '=' nor '&' and whose values
\* contain no '&'.
Unambiguous(ps) ==
    \A k \in 1..Len(ps) :
        /\ \A i \in 1..Len(ps[k][1]) : ps[k][1][i] \notin {"=", "&"}
        /\ \A i \in 1..Len(ps[k][2]) : ps[k][2][i] # "&"

\* Spec 8: fields_str_to_map(pairs_to_fields_str(ps)) = ps for every pair
\* list in which the separators cannot be confused with the text (values
\* may contain '=', keys may be empty).  pairs_to_fields_str escapes
\* nothing, so without that restriction the pair ("=", "") comes back as
\* ("", "=").
RoundTrip == (done /\ src # Absent /\ Unambiguous(src)) => res = src

\* After any series of add_headers calls, get_headers returns every header
\* they were given, in order, name and value apart, as long as no name
\* contains ": " (names may contain ':' and values anything, ": "
\* included).  A name with ": " in it is split there instead.
HeaderRoundTrip ==
    (hin # Absent /\ \A i \in 1..Len(hin) : HeaderSep \notin SubSeqs(hin[i][1]))
        => GET_headers(hdr) = hin

=============================================================================
