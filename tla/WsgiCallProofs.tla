--------------------------- MODULE WsgiCallProofs ---------------------------
(***************************************************************************)
(* Proofs about WsgiCall.                                                  *)
(*                                                                         *)
(* OwnAnswer needs to know where the status and headers come from: they    *)
(* are gone when a request is dispatched, and while its application runs   *)
(* they are what that application said; and that a connection which sent   *)
(* the server's own 500 does not stay.                                     *)
(***************************************************************************)
EXTENDS WsgiCall, FiniteSetTheorems, WellFoundedInduction, TLAPS

Stages == {"idle", "built", "app", "iterating", "writing", "closed"}

\* What the resp_* fields hold for the next or the present request.
RespInv ==
  /\ at \in {"idle", "built"} => resp = None
  /\ at = "built" => said = None
  /\ at \in {"app", "iterating"} => resp = said
  /\ said.status \in Statuses \cup {"none"}

Inv ==
  /\ at \in Stages /\ req \in Nat /\ sent \in Nat /\ list \in Seq(Chunks)
  /\ RespInv
  /\ (at = "writing" /\ last.status = "500") => keep = FALSE
  /\ OwnAnswer

\* A new connection has answered nothing and heard nothing.
LEMMA InitLemma == Init => Inv
BY DEF Init, Inv, Stages, RespInv, OwnAnswer, None, Nothing

\* A dispatch finds the status and headers already cleared.
LEMMA DispatchLemma ==
  ASSUME Inv, Dispatch
  PROVE  Inv'
<1>1. at = "idle" /\ at' = "built" /\ req' = req + 1 /\ list' = <<>> /\ said' = None
      /\ UNCHANGED <<resp, sent, last>>
  BY DEF Dispatch
<1> QED
  BY <1>1 DEF Inv, Stages, RespInv, OwnAnswer, None

\* Calling the application and getting its iterable say nothing yet.
LEMMA CallAppLemma ==
  ASSUME Inv, CallApp \/ AppReturns
  PROVE  Inv'
<1>1. at' \in {"app", "iterating"} /\ at \in {"built", "app"}
      /\ UNCHANGED <<keep, req, resp, list, said, sent, last>>
  BY DEF CallApp, AppReturns
<1> QED
  BY <1>1 DEF Inv, Stages, RespInv, OwnAnswer, None

\* The server's own 500, from wherever it is sent.
LEMMA Send500Lemma ==
  ASSUME Inv, at \in {"built", "app", "iterating"}, send_500, UNCHANGED <<req, resp, list, said>>
  PROVE  Inv'
<1>1. at' = "writing" /\ keep' = FALSE /\ sent' = sent + 1 /\ last'.status = "500"
  BY DEF send_500, Write, Error500
<1> QED
  BY <1>1 DEF Inv, Stages, RespInv, OwnAnswer, None

\* start_response stores what the application said, or leaves what it said before.
LEMMA StartResponseLemma ==
  ASSUME Inv, StartResponse
  PROVE  Inv'
<1>1. PICK status \in Statuses, headers \in Lists, excinfo \in BOOLEAN :
       /\ resp' = StartResponse_call(status, headers, excinfo)
       /\ said' = IF Accepts(status, headers, excinfo)
                    THEN [status |-> status, headers |-> headers] ELSE said
  BY DEF StartResponse
<1>2. at \in {"app", "iterating"} /\ UNCHANGED <<at, keep, req, list, sent, last>>
  BY DEF StartResponse
<1>3. resp = said /\ said.status \in Statuses \cup {"none"}
  BY <1>2 DEF Inv, RespInv
<1>4. resp' = said' /\ said'.status \in Statuses \cup {"none"}
  BY <1>1, <1>3 DEF StartResponse_call
<1> QED
  BY <1>2, <1>4 DEF Inv, RespInv, OwnAnswer

\* A chunk joins those of the same request.
LEMMA YieldLemma ==
  ASSUME Inv, Yield
  PROVE  Inv'
<1>1. at = "iterating" /\ list' \in Seq(Chunks) /\ UNCHANGED <<at, keep, req, resp, said, sent, last>>
  BY DEF Yield, Inv
<1> QED
  BY <1>1 DEF Inv, RespInv, OwnAnswer

\* The end of the iteration writes what was said and collected, or the 500.
LEMMA IterationEndsLemma ==
  ASSUME Inv, IterationEnds
  PROVE  Inv'
<1>1. at = "iterating" /\ UNCHANGED <<req, resp, list, said>>
  BY DEF IterationEnds
<1>2. CASE "not bytes" \notin ToSet(list) /\ resp.status # "none" /\ HeaderFits
  <2>1. Write(format_response_headers(collect_body), keep)
    BY <1>2 DEF IterationEnds
  <2>2. /\ at' = "writing" /\ keep' = keep /\ sent' = sent + 1
        /\ last'.status = resp.status /\ last'.headers = resp.headers
        /\ last'.body = collect_body
        /\ last'.length \in {-1, Cardinality(DOMAIN collect_body)}
        /\ last'.close \subseteq {~keep}
    BY <2>1 DEF Write, format_response_headers
  <2>3. resp = said /\ said.status \in Statuses
    BY <1>1, <1>2 DEF Inv, RespInv
  <2>4. last'.status # "500" /\ last'.status # "none"
    BY <2>2, <2>3 DEF Statuses
  <2>5. DOMAIN collect_body = {i \in DOMAIN list : list[i] # "empty"}
        /\ \A i \in DOMAIN collect_body : collect_body[i] = list[i]
    BY DEF collect_body, Restrict
  <2>6. \A i \in DOMAIN list : list[i] # "empty" => list[i] = "bytes"
    <3>0. \A i \in DOMAIN list : list[i] \in Chunks
      BY DEF Inv
    <3>1. \A i \in DOMAIN list : list[i] \in {"bytes", "empty", "not bytes"}
      BY <3>0, WsgiAssumption
    <3>2. \A i \in DOMAIN list : list[i] \in ToSet(list)
      BY DEF ToSet
    <3> QED
      BY <1>2, <3>1, <3>2
  <2> HIDE DEF collect_body
  <2>7. OwnAnswer'
    BY <1>1, <2>2, <2>3, <2>4, <2>5, <2>6 DEF OwnAnswer, Inv
  <2> QED
    BY <1>1, <2>2, <2>4, <2>7 DEF Inv, Stages, RespInv
<1>3. CASE ~("not bytes" \notin ToSet(list) /\ resp.status # "none" /\ HeaderFits)
  <2>1. send_500
    BY <1>3 DEF IterationEnds
  <2> QED
    BY <1>1, <2>1, Send500Lemma
<1> QED
  BY <1>2, <1>3

\* The completed write clears the fields, and a connection that sent 500 goes.
LEMMA OnWriteLemma ==
  ASSUME Inv, OnWrite
  PROVE  Inv'
<1>1. at = "writing" /\ resp' = None /\ at' \in {"closed", "idle"} /\ (at' = "idle" => keep)
      /\ list' = <<>> /\ said' = None /\ UNCHANGED <<keep, req, sent, last>>
  BY DEF OnWrite, Cleared
<1> QED
  BY <1>1 DEF Inv, Stages, RespInv, OwnAnswer, None

\* Every step keeps the invariant.
LEMMA NextLemma ==
  ASSUME Inv, [Next]_vars
  PROVE  Inv'
<1>1. CASE DispatchFails
  BY <1>1, Send500Lemma DEF DispatchFails
<1>2. CASE AppRaises
  BY <1>2, Send500Lemma DEF AppRaises
<1>3. CASE UNCHANGED vars
  BY <1>3 DEF vars, Inv, RespInv, OwnAnswer
<1> QED
  BY <1>1, <1>2, <1>3, DispatchLemma, CallAppLemma, StartResponseLemma, YieldLemma,
     IterationEndsLemma, OnWriteLemma DEF Next

\* Every response is the server's own 500 or what its own request's
\* application said and yielded, one for each request and none after a 500,
\* however often start_response is called and wherever the call fails.
THEOREM EveryAnswerIsItsOwn == Spec => []OwnAnswer
<1>1. Inv => OwnAnswer
  BY DEF Inv
<1> QED
  BY <1>1, InitLemma, NextLemma, PTL DEF Spec

-----------------------------------------------------------------------------
(* The header cache *)

\* Any set of natural numbers has a least one: induction without an operator
\* for a parameter.
LEMMA LeastNatural ==
  ASSUME NEW T, T \subseteq Nat, T # {}
  PROVE  \E m \in T : \A k \in T : m <= k
<1> DEFINE R == OpToRel(<, Nat)
<1>1. IsWellFoundedOn(R, Nat)
  BY NatLessThanWellFounded
<1>2. \A x, y \in Nat : x < y => <<x, y>> \in R
  BY DEF OpToRel
<1> HIDE DEF R
<1>3. PICK x \in T : \A y \in T : ~(<<y, x>> \in R)
  BY <1>1, WFMin
<1>4. \A y \in T : ~(y < x)
  BY <1>2, <1>3, Zenon
<1> QED
  BY <1>4

\* The table: a sequence of non-empty names in lower case.
LEMMA TableFacts ==
  /\ DOMAIN hdr_names = 1..Len(hdr_names) /\ Len(hdr_names) \in Nat
  /\ \A k \in DOMAIN hdr_names : /\ hdr_names[k] \in Seq(0..255 \ 65..90)
                                 /\ Len(hdr_names[k]) \in Nat
                                 /\ Len(hdr_names[k]) \in 1..HDR_CACHE_MAX_LEN
<1> DEFINE Name == Seq(0..255 \ 65..90)
<1>1. hdr_names \in Seq(Name)
  BY WsgiAssumption
<1>2. \A e \in Name : Len(e) \in Nat
  OBVIOUS
<1> HIDE DEF Name
<1>3. DOMAIN hdr_names = 1..Len(hdr_names) /\ Len(hdr_names) \in Nat
      /\ \A k \in DOMAIN hdr_names : hdr_names[k] \in Name
  BY <1>1
<1>4. \A k \in DOMAIN hdr_names : Len(hdr_names[k]) \in 1..HDR_CACHE_MAX_LEN
  BY WsgiAssumption
<1> QED
  BY <1>2, <1>3, <1>4 DEF Name

\* hdr_cache_init compares neighbours: the whole table is in order of length.
LEMMA TableIsSorted ==
  ASSUME NEW i \in DOMAIN hdr_names, NEW j \in DOMAIN hdr_names, i <= j
  PROVE  Len(hdr_names[i]) <= Len(hdr_names[j])
<1> DEFINE T == {k \in DOMAIN hdr_names : i <= k /\ ~(Len(hdr_names[i]) <= Len(hdr_names[k]))}
<1> SUFFICES ASSUME T # {} PROVE FALSE
  OBVIOUS
<1>1. DOMAIN hdr_names = 1..Len(hdr_names) /\ Len(hdr_names) \in Nat
      /\ \A k \in DOMAIN hdr_names : Len(hdr_names[k]) \in Nat
  BY TableFacts
<1>2. T \subseteq Nat
  BY <1>1
<1>3. PICK m \in T : \A k \in T : m <= k
  BY <1>2, LeastNatural
<1>4. m # i /\ m - 1 \in DOMAIN hdr_names /\ i <= m - 1 /\ m > 1
  BY <1>1
<1>5. m - 1 \notin T
  BY <1>1, <1>3, <1>4
<1>6. Len(hdr_names[i]) <= Len(hdr_names[m - 1])
  BY <1>4, <1>5
<1>7. Len(hdr_names[m]) >= Len(hdr_names[m - 1])
  BY <1>4, WsgiAssumption
<1> QED
  BY <1>1, <1>4, <1>6, <1>7

\* Counting the shorter names gives the place where the others begin.
LEMMA OffsetIsBoundary ==
  ASSUME NEW len \in Nat
  PROVE  /\ hdr_offset(len) \in Nat
         /\ \A i \in Nat \ {0} : i < hdr_offset(len) <=> (i \in DOMAIN hdr_names /\ Len(hdr_names[i]) < len)
<1> DEFINE B == {i \in DOMAIN hdr_names : Len(hdr_names[i]) < len}
           C == {i \in Nat \ {0} : i \notin B}
<1>1. DOMAIN hdr_names = 1..Len(hdr_names) /\ Len(hdr_names) \in Nat
      /\ \A k \in DOMAIN hdr_names : Len(hdr_names[k]) \in Nat
  BY TableFacts
<1>2. C \subseteq Nat /\ Len(hdr_names) + 1 \in C
  BY <1>1
<1>3. PICK m \in C : \A k \in C : m <= k
  BY <1>2, LeastNatural
<1>4. \A i, j \in Nat \ {0} : i \in B /\ j <= i => j \in B
  <2> SUFFICES ASSUME NEW i \in Nat \ {0}, NEW j \in Nat \ {0}, i \in B, j <= i
               PROVE  j \in B
    OBVIOUS
  <2>1. j \in DOMAIN hdr_names
    BY <1>1
  <2>2. Len(hdr_names[j]) <= Len(hdr_names[i])
    BY <2>1, TableIsSorted
  <2> QED
    BY <1>1, <2>1, <2>2
<1>5. \A i \in Nat \ {0} : i < m <=> i \in B
  BY <1>3, <1>4
<1>6. B = 1..(m - 1)
  BY <1>1, <1>3, <1>5
<1>7. Cardinality(1..(m - 1)) = m - 1
  BY <1>3, FS_Interval
<1>8. hdr_offset(len) = m
  <2>1. hdr_offset(len) = Cardinality(B) + 1
    BY DEF hdr_offset
  <2>2. Cardinality(B) = m - 1
    BY <1>6, <1>7, Zenon
  <2> QED
    BY <1>3, <2>1, <2>2
<1> QED
  BY <1>3, <1>5, <1>8

\* The elements of a sequence.
LEMMA SeqFacts ==
  ASSUME NEW S, NEW s \in Seq(S)
  PROVE  DOMAIN s = 1..Len(s) /\ Len(s) \in Nat /\ \A i \in 1..Len(s) : s[i] \in S
OBVIOUS

\* An interval is its first element and the others.
LEMMA FirstAndRest ==
  ASSUME NEW n \in Nat, n >= 1
  PROVE  1 \in 1..n /\ 2..n \subseteq 1..n /\ \A i \in 1..n : i = 1 \/ i \in 2..n
<1>1. 1 \in 1..n /\ \A i \in 1..n : i = 1 \/ i \in 2..n
  OBVIOUS
<1>2. \A i \in 2..n : i \in 1..n
  OBVIOUS
<1> QED
  BY <1>1, <1>2, Zenon

\* The bytes, those that are no capital letter, and a byte in lower case.
Octet      == 0..255
Uncapital  == 0..255 \ 65..90
Lowered(b) == IF IsUpper(b) THEN b + 32 ELSE b

\* Flipping bit 5 of a byte gives a lower case letter only if the byte is that
\* letter in upper case.
LEMMA FlipIsUpper ==
  ASSUME NEW b \in Octet, NEW l \in Uncapital
  PROVE  (b = l \/ (FlipBit5(b) = l /\ IsLower(l))) <=> Lowered(b) = l
BY DEF FlipBit5, IsLower, IsUpper, Octet, Uncapital, Lowered

\* The filter on the first byte and the comparison of the rest are equality
\* but for case.
LEMMA MatchesIsNamed ==
  ASSUME NEW name \in Seq(Octet), NEW e \in Seq(Uncapital),
         Len(name) = Len(e), Len(e) >= 1
  PROVE  Matches(name, e) <=> IsNamed(name, e)
<1> DEFINE Low(i) == Lowered(name[i])
<1>1. DOMAIN name = 1..Len(e) /\ DOMAIN e = 1..Len(e) /\ Len(e) \in Nat
      /\ \A i \in 1..Len(e) : name[i] \in Octet /\ e[i] \in Uncapital
  <2>1. DOMAIN e = 1..Len(e) /\ Len(e) \in Nat /\ \A i \in 1..Len(e) : e[i] \in Uncapital
    BY SeqFacts, Zenon
  <2>2. DOMAIN name = 1..Len(name) /\ \A i \in 1..Len(name) : name[i] \in Octet
    BY SeqFacts, Zenon
  <2>3. Len(name) = Len(e)
    OBVIOUS
  <2>4. DOMAIN name = 1..Len(e)
    BY <2>2, <2>3, Zenon
  <2>5. \A i \in 1..Len(e) : name[i] \in Octet
    BY <2>2, <2>3, Zenon
  <2> QED
    BY <2>1, <2>4, <2>5
<1>2. hdr_eq_ci(Tail(name), Tail(e)) <=> \A i \in 2..Len(e) : Low(i) = e[i]
  <2>1. DOMAIN Tail(e) = 1..(Len(e) - 1)
        /\ \A i \in 1..(Len(e) - 1) : Tail(e)[i] = e[i + 1] /\ Tail(name)[i] = name[i + 1]
    BY <1>1
  <2>2. \A i \in 1..(Len(e) - 1) :
          (Tail(name)[i] = Tail(e)[i] \/ (FlipBit5(Tail(name)[i]) = Tail(e)[i] /\ IsLower(Tail(e)[i])))
            <=> Low(i + 1) = e[i + 1]
    <3> TAKE i \in 1..(Len(e) - 1)
    <3>1. i + 1 \in 1..Len(e)
      BY <1>1
    <3>2. name[i + 1] \in Octet /\ e[i + 1] \in Uncapital
      BY <1>1, <3>1
    <3>3. Tail(name)[i] = name[i + 1] /\ Tail(e)[i] = e[i + 1]
      BY <2>1
    <3>4. (name[i + 1] = e[i + 1] \/ (FlipBit5(name[i + 1]) = e[i + 1] /\ IsLower(e[i + 1])))
            <=> Low(i + 1) = e[i + 1]
      <4> DEFINE b == name[i + 1] l == e[i + 1]
      <4>1. b \in Octet /\ l \in Uncapital
        BY <3>2
      <4> HIDE DEF b, l
      <4>2. (b = l \/ (FlipBit5(b) = l /\ IsLower(l))) <=> Lowered(b) = l
        BY <4>1, FlipIsUpper, Zenon
      <4> QED
        BY <4>2, Zenon DEF b, l
    <3> QED
      BY <3>3, <3>4, Zenon
  <2>3. hdr_eq_ci(Tail(name), Tail(e)) <=> \A i \in 1..(Len(e) - 1) : Low(i + 1) = e[i + 1]
    BY <2>1, <2>2 DEF hdr_eq_ci
  <2>4. (\A i \in 1..(Len(e) - 1) : Low(i + 1) = e[i + 1]) <=> \A j \in 2..Len(e) : Low(j) = e[j]
    <3>1. ASSUME \A i \in 1..(Len(e) - 1) : Low(i + 1) = e[i + 1], NEW j \in 2..Len(e)
          PROVE  Low(j) = e[j]
      <4>1. j - 1 \in 1..(Len(e) - 1) /\ (j - 1) + 1 = j
        BY <1>1
      <4> QED
        BY <3>1, <4>1
    <3>2. ASSUME \A j \in 2..Len(e) : Low(j) = e[j], NEW i \in 1..(Len(e) - 1)
          PROVE  Low(i + 1) = e[i + 1]
      <4>1. i + 1 \in 2..Len(e)
        BY <1>1
      <4> QED
        BY <3>2, <4>1
    <3> QED
      BY <3>1, <3>2
  <2> QED
    BY <2>3, <2>4
<1>3. Matches(name, e) <=> \A i \in 1..Len(e) : Low(i) = e[i]
  <2>1. Matches(name, e) <=> Low(1) = e[1] /\ \A i \in 2..Len(e) : Low(i) = e[i]
    BY <1>2, Zenon DEF Matches, Lowered
  <2> HIDE DEF Low
  <2>2. 1 \in 1..Len(e) /\ 2..Len(e) \subseteq 1..Len(e) /\ \A i \in 1..Len(e) : i = 1 \/ i \in 2..Len(e)
    BY <1>1, FirstAndRest, Zenon
  <2> QED
    BY <2>1, <2>2, Zenon
<1>4. IsNamed(name, e) <=> [i \in DOMAIN name |-> Low(i)] = e
  BY Zenon DEF IsNamed, Lowered
<1> HIDE DEF Low
<1>5. ([i \in 1..Len(e) |-> Low(i)] = e) <=> \A i \in 1..Len(e) : Low(i) = e[i]
  <2>1. e = [i \in 1..Len(e) |-> e[i]]
    OBVIOUS
  <2>2. ASSUME \A i \in 1..Len(e) : Low(i) = e[i]
        PROVE  [i \in 1..Len(e) |-> Low(i)] = [i \in 1..Len(e) |-> e[i]]
    BY <2>2
  <2>3. ASSUME [i \in 1..Len(e) |-> Low(i)] = e, NEW i \in 1..Len(e)
        PROVE  Low(i) = e[i]
    <3>1. [k \in 1..Len(e) |-> Low(k)][i] = Low(i)
      OBVIOUS
    <3> QED
      BY <2>3, <3>1, Zenon
  <2> QED
    BY <2>1, <2>2, <2>3, Zenon
<1>6. [i \in DOMAIN name |-> Low(i)] = [i \in 1..Len(e) |-> Low(i)]
  BY <1>1, Zenon
<1> QED
  BY <1>3, <1>4, <1>5, <1>6, Zenon

\* hdr_cache_lookup finds a name in every spelling of it, and nothing else:
\* the slice of the table that hdr_cache_init's offsets name, the filter on
\* the first byte and the comparison with bit 5 flipped come to a search of
\* the whole table without regard to case.
THEOREM CacheKnowsEverySpelling ==
  ASSUME NEW name \in Seq(0..255)
  PROVE  /\ (hdr_cache_lookup(name) # 0) <=> \E e \in ToSet(hdr_names) : IsNamed(name, e)
         /\ hdr_cache_lookup(name) # 0 => IsNamed(name, hdr_names[hdr_cache_lookup(name)])
<1> DEFINE lo == hdr_offset(Len(name)) hi == hdr_offset(Len(name) + 1)
           found == {i \in lo..(hi - 1) : Matches(name, hdr_names[i])}
           c == CHOOSE i \in found : \A j \in found : i <= j
<1>1. Len(name) \in Nat /\ Len(name) + 1 \in Nat
  OBVIOUS
<1>2. DOMAIN hdr_names = 1..Len(hdr_names) /\ Len(hdr_names) \in Nat
      /\ \A k \in DOMAIN hdr_names : hdr_names[k] \in Seq(0..255 \ 65..90)
                                     /\ Len(hdr_names[k]) \in 1..HDR_CACHE_MAX_LEN
  BY TableFacts
<1>3. lo \in Nat /\ hi \in Nat /\ 0 < lo
  <2>1. hdr_offset(Len(name)) \in Nat /\ hdr_offset(Len(name) + 1) \in Nat
    BY <1>1, OffsetIsBoundary
  <2>3. IsFiniteSet({i \in DOMAIN hdr_names : Len(hdr_names[i]) < Len(name)})
    <3>1. IsFiniteSet(1..Len(hdr_names))
      BY <1>2, FS_Interval
    <3> QED
      BY <1>2, <3>1, FS_Subset
  <2>4. Cardinality({i \in DOMAIN hdr_names : Len(hdr_names[i]) < Len(name)}) \in Nat
    BY <2>3, FS_CardinalityType
  <2> QED
    BY <2>1, <2>4 DEF hdr_offset
<1>4. \A i \in Nat \ {0} : i \in lo..(hi - 1) <=> (i \in DOMAIN hdr_names /\ Len(hdr_names[i]) = Len(name))
  <2> HIDE DEF lo, hi
  <2>1. \A i \in Nat \ {0} : i < lo <=> (i \in DOMAIN hdr_names /\ Len(hdr_names[i]) < Len(name))
    BY <1>1, OffsetIsBoundary DEF lo
  <2>2. \A i \in Nat \ {0} : i < hi <=> (i \in DOMAIN hdr_names /\ Len(hdr_names[i]) < Len(name) + 1)
    BY <1>1, OffsetIsBoundary DEF hi
  <2> QED
    BY <1>1, <1>2, <1>3, <2>1, <2>2
<1> HIDE DEF lo, hi
<1>5. \A i \in DOMAIN hdr_names : i \in found <=> IsNamed(name, hdr_names[i])
  <2> TAKE i \in DOMAIN hdr_names
  <2>0. i \in Nat \ {0}
    <3>1. i \in 1..Len(hdr_names)
      BY <1>2, Zenon
    <3> QED
      BY <3>1
  <2>1. i \in found <=> Len(hdr_names[i]) = Len(name) /\ Matches(name, hdr_names[i])
    BY <1>4, <2>0, Zenon
  <2>2. Len(hdr_names[i]) = Len(name) => (Matches(name, hdr_names[i]) <=> IsNamed(name, hdr_names[i]))
    BY <1>2, MatchesIsNamed DEF Octet, Uncapital
  <2>3. IsNamed(name, hdr_names[i]) => Len(hdr_names[i]) = Len(name)
    BY DEF IsNamed
  <2> QED
    BY <2>1, <2>2, <2>3
<1>6. found \subseteq DOMAIN hdr_names /\ found \subseteq Nat \ {0}
  BY <1>2, <1>3, <1>4
<1>7. hdr_cache_lookup(name) = IF Len(name) \notin 1..HDR_CACHE_MAX_LEN \/ found = {} THEN 0 ELSE c
  BY DEF hdr_cache_lookup, lo, hi
<1>8. found # {} => c \in found /\ Len(name) \in 1..HDR_CACHE_MAX_LEN
  <2> SUFFICES ASSUME found # {} PROVE c \in found /\ Len(name) \in 1..HDR_CACHE_MAX_LEN
    OBVIOUS
  <2>1. \E i \in found : \A j \in found : i <= j
    BY <1>6, LeastNatural
  <2> HIDE DEF found
  <2>2. c \in found
    BY <2>1
  <2>3. IsNamed(name, hdr_names[c]) /\ c \in DOMAIN hdr_names
    BY <1>5, <1>6, <2>2
  <2> QED
    BY <1>2, <2>2, <2>3 DEF IsNamed
<1>9. (\E e \in ToSet(hdr_names) : IsNamed(name, e)) <=> found # {}
  <2> HIDE DEF found
  <2> QED
    BY <1>5, <1>6 DEF ToSet
<1> HIDE DEF found, c
<1>10. hdr_cache_lookup(name) # 0 <=> found # {}
  BY <1>6, <1>7, <1>8
<1> QED
  BY <1>5, <1>6, <1>7, <1>8, <1>9, <1>10

-----------------------------------------------------------------------------
(* The environ *)

\* A byte as it stands in a key.
KeyByte(b) == IF IsLower(b) THEN b - 32 ELSE IF b = 45 THEN 95 ELSE b

\* The separator of what stands under a key.
Sep(key) == IF key = wsgi_header_key(CookieName) THEN "; " ELSE ", "

\* Every spelling of a name has the same key.
LEMMA KeyOfSpelling ==
  ASSUME NEW name \in Seq(Octet), NEW e, IsNamed(name, e)
  PROVE  wsgi_header_key(name) = wsgi_header_key(e)
<1>1. e = [i \in DOMAIN name |-> Lowered(name[i])]
  BY Zenon DEF IsNamed, Lowered
<1>2. DOMAIN e = DOMAIN name /\ \A i \in DOMAIN name : e[i] = Lowered(name[i])
  BY <1>1
<1>3. \A i \in DOMAIN name : name[i] \in Octet
  BY SeqFacts
<1>4. \A b \in Octet : KeyByte(Lowered(b)) = KeyByte(b)
  BY DEF Octet, KeyByte, Lowered, IsUpper, IsLower
<1>5. \A i \in DOMAIN name : KeyByte(e[i]) = KeyByte(name[i])
  BY <1>2, <1>3, <1>4
<1>6. [i \in DOMAIN name |-> KeyByte(name[i])] = [i \in DOMAIN e |-> KeyByte(e[i])]
  BY <1>2, <1>5
<1>7. \A s : wsgi_header_key(s) = <<"HTTP_", [i \in DOMAIN s |-> KeyByte(s[i])]>>
  BY Zenon DEF wsgi_header_key, KeyByte
<1> QED
  BY <1>6, <1>7

\* Whether the cache knows a name or not, its key is the same.
LEMMA KeyOfField ==
  ASSUME NEW name \in Seq(Octet)
  PROVE  HeaderKey(name) = wsgi_header_key(name)
<1>1. PICK e : e = hdr_cache_lookup(name)
  OBVIOUS
<1>2. e # 0 => IsNamed(name, hdr_names[e])
  BY <1>1, CacheKnowsEverySpelling DEF Octet
<1>3. e # 0 => wsgi_header_key(name) = wsgi_header_key(hdr_names[e])
  BY <1>2, KeyOfSpelling
<1> QED
  BY <1>1, <1>3 DEF HeaderKey

\* No other name than Cookie has its key: the name holds neither '-' nor '_'.
LEMMA CookieKey ==
  ASSUME NEW name \in Seq(Octet)
  PROVE  IsNamed(name, CookieName) <=> wsgi_header_key(name) = wsgi_header_key(CookieName)
<1>1. PICK C : C = CookieName
  OBVIOUS
<1>2. C \in Seq(97..122)
  BY <1>1, WsgiAssumption
<1>3. DOMAIN C = 1..Len(C) /\ Len(C) \in Nat /\ \A i \in 1..Len(C) : C[i] \in 97..122
  BY <1>2, SeqFacts
<1>4. DOMAIN name = 1..Len(name) /\ Len(name) \in Nat /\ \A i \in 1..Len(name) : name[i] \in Octet
  BY SeqFacts
<1>5. ASSUME wsgi_header_key(name) = wsgi_header_key(C)
      PROVE  IsNamed(name, C)
  <2> DEFINE f == [i \in DOMAIN name |-> KeyByte(name[i])]
             g == [i \in DOMAIN C |-> KeyByte(C[i])]
  <2>1. <<"HTTP_", f>> = <<"HTTP_", g>>
    BY <1>5, Zenon DEF wsgi_header_key, KeyByte
  <2>2. f = g
    <3> HIDE DEF f, g
    <3> QED
      BY <2>1
  <2>3. DOMAIN name = DOMAIN C /\ \A i \in DOMAIN name : KeyByte(name[i]) = KeyByte(C[i])
    <3>1. DOMAIN f = DOMAIN name /\ DOMAIN g = DOMAIN C
      OBVIOUS
    <3>2. \A i \in DOMAIN name : f[i] = KeyByte(name[i])
      OBVIOUS
    <3>3. \A i \in DOMAIN C : g[i] = KeyByte(C[i])
      OBVIOUS
    <3> HIDE DEF f, g
    <3> QED
      BY <2>2, <3>1, <3>2, <3>3
  <2>4. Len(name) = Len(C)
    <3>1. PICK x, y : x = Len(name) /\ y = Len(C)
      OBVIOUS
    <3>2. x \in Nat /\ y \in Nat /\ 1..x = 1..y
      BY <1>3, <1>4, <2>3, <3>1
    <3>3. (x \in 1..x => x \in 1..y) /\ (y \in 1..y => y \in 1..x)
      BY <3>2
    <3>4. x = y
      BY <3>2, <3>3
    <3> QED
      BY <3>1, <3>4
  <2>5. \A b \in Octet, l \in 97..122 : KeyByte(b) = KeyByte(l) => Lowered(b) = l
    BY DEF Octet, KeyByte, Lowered, IsUpper, IsLower
  <2>6. \A i \in DOMAIN name : Lowered(name[i]) = C[i]
    BY <1>3, <1>4, <2>3, <2>5
  <2>7. C = [i \in DOMAIN C |-> C[i]]
    BY <1>2
  <2>8. [i \in DOMAIN name |-> Lowered(name[i])] = C
    BY <2>3, <2>6, <2>7
  <2> QED
    BY <2>4, <2>8, Zenon DEF IsNamed, Lowered
<1>6. IsNamed(name, C) => wsgi_header_key(name) = wsgi_header_key(C)
  BY KeyOfSpelling
<1> QED
  BY <1>1, <1>5, <1>6

\* The environs after each field are what their definition says.
LEMMA EnvironsDef ==
  ASSUME NEW fields, Len(fields) \in Nat
  PROVE  /\ Environs(fields)[0] = <<>>
         /\ \A i \in 1..Len(fields) : Environs(fields)[i] = AddField(Environs(fields)[i - 1], fields[i])
<1> DEFINE n == Len(fields)
           R(x, i) == AddField(x, fields[i])
           Is(w, k) == w = [i \in 0..k |-> IF i = 0 THEN <<>> ELSE R(w[i - 1], i)]
           T == {k \in 0..n : ~\E w : Is(w, k)}
<1>1. Environs(fields) = CHOOSE w : Is(w, n)
  BY DEF Environs
<1> HIDE DEF R
<1>2. \E w : Is(w, n)
  <2> SUFFICES ASSUME ~\E w : Is(w, n)
               PROVE  FALSE
    OBVIOUS
  <2>1. T # {} /\ T \subseteq Nat
    OBVIOUS
  <2>2. PICK k \in T : \A l \in T : k <= l
    BY <2>1, LeastNatural
  <2>3. k \in 0..n /\ ~\E w : Is(w, k)
    BY <2>2, Zenon
  <2>4. CASE k = 0
    <3>1. Is([i \in 0..0 |-> <<>>], 0)
      OBVIOUS
    <3> QED
      BY <2>3, <2>4, <3>1, Zenon
  <2>5. CASE k # 0
    <3>1. k - 1 \in 0..n /\ k - 1 \in Nat /\ ~(k <= k - 1)
      BY <2>3, <2>5
    <3>2. \E w : Is(w, k - 1)
      BY <2>2, <3>1, Zenon
    <3>3. PICK w : Is(w, k - 1)
      BY <3>2, Zenon
    <3> DEFINE v == [i \in 0..k |-> IF i = k THEN R(w[k - 1], k) ELSE w[i]]
    <3>4. \A i \in 0..(k - 1) : w[i] = IF i = 0 THEN <<>> ELSE R(w[i - 1], i)
      <4> DEFINE u == [i \in 0..(k - 1) |-> IF i = 0 THEN <<>> ELSE R(w[i - 1], i)]
      <4>1. w = u
        BY <3>3, Zenon
      <4>2. \A i \in 0..(k - 1) : u[i] = IF i = 0 THEN <<>> ELSE R(w[i - 1], i)
        OBVIOUS
      <4> HIDE DEF u
      <4> QED
        BY <4>1, <4>2, Zenon
    <3>5. \A i \in 0..k : v[i] = IF i = k THEN R(w[k - 1], k) ELSE w[i]
      OBVIOUS
    <3>6. ASSUME NEW i \in 0..k PROVE v[i] = IF i = 0 THEN <<>> ELSE R(v[i - 1], i)
      <4>1. CASE i = k
        <5>1. v[k - 1] = w[k - 1] /\ v[k] = R(w[k - 1], k)
          BY <3>1, <3>5
        <5> HIDE DEF v
        <5> QED
          BY <2>5, <4>1, <5>1
      <4>2. CASE i # k /\ i = 0
        BY <3>1, <3>4, <3>5, <4>2
      <4>3. CASE i # k /\ i # 0
        <5>1. i \in 0..(k - 1) /\ i - 1 \in 0..k /\ i - 1 # k
          BY <3>1, <4>3
        <5>2. v[i] = w[i] /\ v[i - 1] = w[i - 1] /\ w[i] = R(w[i - 1], i)
          BY <3>4, <3>5, <4>3, <5>1
        <5> HIDE DEF v
        <5> QED
          BY <4>3, <5>2
      <4> QED
        BY <4>1, <4>2, <4>3
    <3>7. Is(v, k)
      <4>1. v = [i \in 0..k |-> v[i]]
        OBVIOUS
      <4> HIDE DEF v
      <4> QED
        BY <3>6, <4>1
    <3> QED
      BY <2>3, <3>7, Zenon
  <2> QED
    BY <2>4, <2>5
<1>3. Is(Environs(fields), n)
  BY <1>1, <1>2, Zenon
<1>4. PICK w : w = Environs(fields)
  OBVIOUS
<1>5. \A i \in 0..n : w[i] = IF i = 0 THEN <<>> ELSE R(w[i - 1], i)
  <2> DEFINE u == [i \in 0..n |-> IF i = 0 THEN <<>> ELSE R(w[i - 1], i)]
  <2>1. w = u
    BY <1>3, <1>4, Zenon
  <2>2. \A i \in 0..n : u[i] = IF i = 0 THEN <<>> ELSE R(w[i - 1], i)
    OBVIOUS
  <2> HIDE DEF u
  <2> QED
    BY <2>1, <2>2, Zenon
<1>6. 0 \in 0..n /\ \A i \in 1..n : i \in 0..n /\ i # 0
  OBVIOUS
<1> QED
  BY <1>4, <1>5, <1>6 DEF R

\* The fields of a request.
Field == [name : Seq(0..255), value : STRING]

\* What a text is made of.
Token == STRING \cup {"; ", ", "}

\* Content-Type and Content-Length leave the other keys alone.
LEMMA AddSpecial ==
  ASSUME NEW env, NEW h, Special(h), NEW k, k[1] = "HTTP_"
  PROVE  /\ k \in DOMAIN AddField(env, h) <=> k \in DOMAIN env
         /\ k \in DOMAIN env => AddField(env, h)[k] = env[k]
<1>1. PICK key : /\ key \in {<<"CONTENT_TYPE", <<>>>>, <<"CONTENT_LENGTH", <<>>>>}
                 /\ AddField(env, h) = Put(env, key, <<h.value>>)
  BY Zenon DEF AddField, Special
<1>2. key[1] # "HTTP_"
  BY <1>1
<1>3. k # key
  BY <1>2
<1>4. PICK p, new : p = AddField(env, h) /\ new = <<h.value>>
  OBVIOUS
<1>5. p = [l \in DOMAIN env \cup {key} |-> IF l = key THEN new ELSE env[l]]
  BY <1>1, <1>4 DEF Put
<1>6. DOMAIN p = DOMAIN env \cup {key} /\ \A l \in DOMAIN env : l # key => p[l] = env[l]
  BY <1>5
<1> QED
  BY <1>3, <1>4, <1>6

\* e is env with the field joined to what stands under the key.
Adds(env, e, key, h) ==
  /\ DOMAIN e = DOMAIN env \cup {key}
  /\ \A k \in DOMAIN env : k # key => e[k] = env[k]
  /\ key \in DOMAIN env => e[key] = env[key] \o <<Sep(key), h.value>>
  /\ key \notin DOMAIN env => e[key] = <<h.value>>

\* That is what any other field does.
LEMMA AddOrdinary ==
  ASSUME NEW env, NEW h \in Field, ~Special(h)
  PROVE  Adds(env, AddField(env, h), wsgi_header_key(h.name), h)
<1>0. PICK key : key = wsgi_header_key(h.name)
  OBVIOUS
<1>1. h.name \in Seq(Octet)
  BY DEF Field, Octet
<1>2. HeaderKey(h.name) = key
  BY <1>0, <1>1, KeyOfField
<1>3. (IF IsNamed(h.name, CookieName) THEN "; " ELSE ", ") = Sep(key)
  BY <1>0, <1>1, CookieKey DEF Sep
<1>4. AddField(env, h) = IF key \in DOMAIN env THEN Put(env, key, env[key] \o <<Sep(key), h.value>>)
                                               ELSE Put(env, key, <<h.value>>)
  BY <1>2, <1>3, Zenon DEF AddField, Special
<1>5. PICK p, new : /\ p = AddField(env, h)
                    /\ new = IF key \in DOMAIN env THEN env[key] \o <<Sep(key), h.value>>
                                                    ELSE <<h.value>>
  OBVIOUS
<1>6. p = [l \in DOMAIN env \cup {key} |-> IF l = key THEN new ELSE env[l]]
  BY <1>4, <1>5 DEF Put
<1>7. /\ DOMAIN p = DOMAIN env \cup {key} /\ p[key] = new
      /\ \A k \in DOMAIN env : k # key => p[k] = env[k]
  BY <1>6
<1> QED
  BY <1>0, <1>5, <1>7 DEF Adds

\* One place.
LEMMA JoinedOne ==
  ASSUME NEW fields, NEW n \in Nat, NEW sep
  PROVE  Joined(<<fields[n].value>>, fields, {n}, sep)
<1>1. {j \in {n} : j < n} = {}
  OBVIOUS
<1>2. Cardinality({j \in {n} : j < n}) = 0
  BY <1>1, FS_EmptySet
<1>3. Cardinality({n}) = 1
  BY FS_Singleton
<1>4. PICK text : text = <<fields[n].value>>
  OBVIOUS
<1>5. Len(text) = 1 /\ text[1] = fields[n].value
  BY <1>4
<1>6. Joined(text, fields, {n}, sep)
  BY <1>2, <1>3, <1>5 DEF Joined
<1> QED
  BY <1>4, <1>6

\* One place more, behind all the others.
LEMMA JoinedMore ==
  ASSUME NEW fields, NEW n \in Nat, NEW I, I \subseteq 1..(n - 1), NEW text \in Seq(Token),
         NEW sep \in Token, fields[n].value \in Token, Joined(text, fields, I, sep)
  PROVE  Joined(text \o <<sep, fields[n].value>>, fields, I \cup {n}, sep)
<1>1. PICK N, v, t, L : /\ N = Cardinality(I) /\ v = fields[n].value
                        /\ t = text \o <<sep, v>> /\ L = Len(text)
  OBVIOUS
<1>2. IsFiniteSet(I) /\ N \in Nat /\ n \notin I /\ n - 1 \in Int
  <2>1. IsFiniteSet(1..(n - 1))
    BY FS_Interval
  <2>2. IsFiniteSet(I)
    BY <2>1, FS_Subset
  <2> QED
    BY <1>1, <2>2, FS_CardinalityType
<1>3. Cardinality(I \cup {n}) = N + 1
  BY <1>1, <1>2, FS_AddElement
<1>4. L = 2 * N - 1 /\ L \in Nat
  BY <1>1 DEF Joined
<1>5. /\ Len(t) = L + 2 /\ t[L + 1] = sep /\ t[L + 2] = v
      /\ \A i \in 1..L : t[i] = text[i]
  BY <1>1
<1>6. ASSUME NEW i \in I, NEW b, b = Cardinality({j \in I \cup {n} : j < i})
      PROVE  /\ t[2 * b + 1] = fields[i].value
             /\ b > 0 => t[2 * b] = sep
  <2>1. {j \in I \cup {n} : j < i} = {j \in I : j < i}
    BY <1>2
  <2>2. b = Cardinality({j \in I : j < i})
    BY <1>6, <2>1
  <2>3. {j \in I : j < i} \subseteq I \ {i}
    OBVIOUS
  <2>4. IsFiniteSet(I \ {i}) /\ Cardinality(I \ {i}) = N - 1
    BY <1>1, <1>2, FS_RemoveElement
  <2>5. b \in Nat /\ b <= N - 1
    <3>1. PICK D, E : D = {j \in I : j < i} /\ E = I \ {i}
      OBVIOUS
    <3>2. IsFiniteSet(E) /\ D \in SUBSET E /\ Cardinality(E) = N - 1 /\ b = Cardinality(D)
      BY <2>2, <2>3, <2>4, <3>1
    <3>3. IsFiniteSet(D) /\ Cardinality(D) <= Cardinality(E)
      BY <3>2, FS_Subset
    <3> QED
      BY <3>2, <3>3, FS_CardinalityType
  <2>6. text[2 * b + 1] = fields[i].value /\ (b > 0 => text[2 * b] = sep)
    BY <2>2 DEF Joined
  <2>7. 2 * b + 1 \in 1..L /\ (b > 0 => 2 * b \in 1..L)
    BY <1>2, <1>4, <2>5
  <2> QED
    BY <1>5, <2>6, <2>7
<1>7. ASSUME NEW b, b = Cardinality({j \in I \cup {n} : j < n})
      PROVE  t[2 * b + 1] = v /\ t[2 * b] = sep
  <2>1. {j \in I \cup {n} : j < n} = I
    <3>1. \A j \in I : j < n
      BY <1>2
    <3>2. ~(n < n)
      OBVIOUS
    <3> QED
      BY <3>1, <3>2, Zenon
  <2>2. b = N
    BY <1>1, <1>7, <2>1
  <2> QED
    BY <1>2, <1>4, <1>5, <2>2
<1>8. Len(t) = 2 * Cardinality(I \cup {n}) - 1
  BY <1>2, <1>3, <1>4, <1>5
<1>9. Joined(t, fields, I \cup {n}, sep)
  <2> SUFFICES ASSUME NEW i \in I \cup {n}, NEW b, b = Cardinality({j \in I \cup {n} : j < i})
               PROVE  t[2 * b + 1] = fields[i].value /\ (b > 0 => t[2 * b] = sep)
    BY <1>8, Zenon DEF Joined
  <2>1. CASE i = n
    BY <1>1, <1>7, <2>1
  <2>2. CASE i \in I
    BY <1>6, <2>2
  <2> QED
    BY <2>1, <2>2
<1> QED
  BY <1>1, <1>9

\* The places under a key among the first n fields.
UpTo(fields, n, k) == {i \in Under(fields, k) : i <= n}

\* An environ that is right for the first n fields.
Complete(fields, n, env) ==
  \A k : k[1] = "HTTP_" =>
    /\ k \in DOMAIN env <=> UpTo(fields, n, k) # {}
    /\ k \in DOMAIN env => env[k] \in Seq(Token) /\ Joined(env[k], fields, UpTo(fields, n, k), Sep(k))

\* One field more.
LEMMA AddFieldComplete ==
  ASSUME NEW fields \in Seq(Field), NEW n \in DOMAIN fields, NEW env,
         Complete(fields, n - 1, env)
  PROVE  Complete(fields, n, AddField(env, fields[n]))
<1>1. PICK h, e, key : /\ h = fields[n] /\ e = AddField(env, h) /\ key = wsgi_header_key(h.name)
  OBVIOUS
<1>2. h \in Field /\ h.value \in Token /\ DOMAIN fields \subseteq Nat \ {0} /\ n \in Nat
  <2>1. DOMAIN fields = 1..Len(fields) /\ Len(fields) \in Nat /\ fields[n] \in Field
    OBVIOUS
  <2>2. h \in Field
    BY <1>1, <2>1
  <2>3. h.value \in Token
    BY <2>2 DEF Field, Token
  <2> QED
    BY <2>1, <2>2, <2>3
<1>3. key[1] = "HTTP_"
  BY <1>1 DEF wsgi_header_key
<1>4. \A k : UpTo(fields, n - 1, k) \subseteq 1..(n - 1)
  BY <1>2 DEF UpTo, Under, Ordinary
<1>5. ASSUME NEW k, k[1] = "HTTP_"
      PROVE  /\ k \in DOMAIN e <=> UpTo(fields, n, k) # {}
             /\ k \in DOMAIN e => e[k] \in Seq(Token) /\ Joined(e[k], fields, UpTo(fields, n, k), Sep(k))
  <2>1. PICK I, J : I = UpTo(fields, n - 1, k) /\ J = UpTo(fields, n, k)
    OBVIOUS
  <2>2. /\ k \in DOMAIN env <=> I # {}
        /\ k \in DOMAIN env => env[k] \in Seq(Token) /\ Joined(env[k], fields, I, Sep(k))
    BY <1>5, <2>1 DEF Complete
  <2>3. \A i \in Nat : i <= n <=> i <= n - 1 \/ i = n
    BY <1>2
  <2>4. CASE Special(h) \/ k # key
    <3>1. n \notin Under(fields, k)
      BY <1>1, <2>4 DEF Under, Ordinary
    <3>2. I = J
      BY <1>2, <2>1, <2>3, <3>1 DEF UpTo, Under, Ordinary
    <3>3. /\ k \in DOMAIN e <=> k \in DOMAIN env
          /\ k \in DOMAIN env => e[k] = env[k]
      <4>1. CASE Special(h)
        BY <1>1, <1>5, <4>1, AddSpecial
      <4>2. CASE ~Special(h)
        <5>1. Adds(env, e, key, h)
          BY <1>1, <1>2, <4>2, AddOrdinary
        <5> QED
          BY <2>4, <4>2, <5>1 DEF Adds
      <4> QED
        BY <4>1, <4>2
    <3> QED
      BY <2>1, <2>2, <3>2, <3>3
  <2>5. CASE ~Special(h) /\ k = key
    <3>1. n \in Under(fields, k)
      BY <1>1, <2>5 DEF Under, Ordinary
    <3>2. J = I \cup {n}
      BY <1>2, <2>1, <2>3, <3>1 DEF UpTo, Under, Ordinary
    <3>3. /\ DOMAIN e = DOMAIN env \cup {k}
          /\ k \in DOMAIN env => e[k] = env[k] \o <<Sep(k), h.value>>
          /\ k \notin DOMAIN env => e[k] = <<h.value>>
      <4>1. Adds(env, e, key, h)
        BY <1>1, <1>2, <2>5, AddOrdinary
      <4> QED
        BY <2>5, <4>1 DEF Adds
    <3>4. Sep(k) \in Token
      BY DEF Sep, Token
    <3>5. CASE k \in DOMAIN env
      <4>1. PICK text, sep : text = env[k] /\ sep = Sep(k)
        OBVIOUS
      <4>2. text \in Seq(Token) /\ sep \in Token /\ Joined(text, fields, I, sep)
        BY <2>2, <3>4, <3>5, <4>1
      <4>3. I \subseteq 1..(n - 1)
        BY <1>4, <2>1
      <4>4. Joined(text \o <<sep, fields[n].value>>, fields, I \cup {n}, sep)
        BY <1>1, <1>2, <4>2, <4>3, JoinedMore
      <4>5. e[k] = text \o <<sep, fields[n].value>>
        BY <1>1, <3>3, <3>5, <4>1
      <4>6. text \o <<sep, h.value>> \in Seq(Token)
        BY <1>2, <4>2
      <4> QED
        BY <1>1, <2>1, <3>2, <3>3, <4>1, <4>4, <4>5, <4>6
    <3>6. CASE k \notin DOMAIN env
      <4>1. J = {n}
        BY <2>2, <3>2, <3>6
      <4>2. e[k] = <<fields[n].value>> /\ k \in DOMAIN e
        BY <1>1, <3>3, <3>6
      <4>3. Joined(<<fields[n].value>>, fields, {n}, Sep(k))
        BY <1>2, JoinedOne
      <4>4. <<fields[n].value>> \in Seq(Token)
        BY <1>1, <1>2
      <4> QED
        BY <2>1, <4>1, <4>2, <4>3, <4>4
    <3> QED
      BY <3>5, <3>6
  <2> QED
    BY <2>4, <2>5
<1>6. Complete(fields, n, e)
  BY <1>5 DEF Complete
<1> QED
  BY <1>1, <1>6

\* All of them.
LEMMA BuildComplete ==
  ASSUME NEW fields \in Seq(Field)
  PROVE  Complete(fields, Len(fields), build_environ(fields))
<1> DEFINE T == {i \in 0..Len(fields) : ~Complete(fields, i, Environs(fields)[i])}
<1>1. Len(fields) \in Nat /\ DOMAIN fields = 1..Len(fields)
  OBVIOUS
<1>2. Complete(fields, 0, Environs(fields)[0])
  <2>1. Environs(fields)[0] = <<>>
    BY <1>1, EnvironsDef
  <2>2. \A k : UpTo(fields, 0, k) = {}
    BY <1>1 DEF UpTo, Under, Ordinary
  <2>3. DOMAIN <<>> = {}
    OBVIOUS
  <2> QED
    BY <2>1, <2>2, <2>3 DEF Complete
<1>3. T = {}
  <2> SUFFICES ASSUME T # {}
               PROVE  FALSE
    OBVIOUS
  <2>1. T \subseteq Nat
    BY <1>1
  <2>2. PICK i \in T : \A j \in T : i <= j
    BY <2>1, LeastNatural
  <2>3. i \in 0..Len(fields) /\ ~Complete(fields, i, Environs(fields)[i])
    BY <2>2
  <2>4. i # 0
    BY <1>2, <2>3
  <2>5. i \in DOMAIN fields /\ i - 1 \in 0..Len(fields) /\ ~(i <= i - 1)
    BY <1>1, <2>3, <2>4
  <2>6. Complete(fields, i - 1, Environs(fields)[i - 1])
    BY <2>2, <2>5
  <2>7. Environs(fields)[i] = AddField(Environs(fields)[i - 1], fields[i])
    BY <1>1, <2>5, EnvironsDef
  <2>8. PICK env : env = Environs(fields)[i - 1]
    OBVIOUS
  <2>9. Complete(fields, i, AddField(env, fields[i]))
    BY <2>5, <2>6, <2>8, AddFieldComplete
  <2> QED
    BY <2>3, <2>7, <2>8, <2>9
<1>4. Len(fields) \in 0..Len(fields)
  BY <1>1
<1> QED
  BY <1>3, <1>4 DEF build_environ

\* The environ that waits for its application is that of a request.
EnvironInv ==
  at = "built" => environ.of \in Requests /\ environ.has = build_environ(environ.of)

\* Whatever the request's fields and the cache's table: every field but
\* Content-Type and Content-Length is in the environ that build_environ makes,
\* joined in order to the others whose names come to the same key, with the
\* separator that a Cookie field has and no other, and the cache's answer does
\* not depend on the spelling of a name (EnvironIsComplete).
THEOREM EveryFieldShows == Spec => []EnvironIsComplete
<1>1. Init => EnvironInv
  BY DEF Init, EnvironInv
<1>2. EnvironInv /\ [Next]_vars => EnvironInv'
  <2> SUFFICES ASSUME EnvironInv, [Next]_vars
               PROVE  EnvironInv'
    OBVIOUS
  <2>1. CASE Dispatch
    <3>1. PICK fields \in Requests : environ' = [of |-> fields, has |-> build_environ(fields)]
      BY <2>1 DEF Dispatch
    <3>2. environ'.of = fields /\ environ'.has = build_environ(fields)
      BY <3>1
    <3> QED
      BY <3>2 DEF EnvironInv
  <2>2. CASE DispatchFails \/ CallApp \/ StartResponse \/ AppReturns \/ AppRaises \/ Yield
             \/ IterationEnds \/ OnWrite
    <3>1. at' # "built"
      BY <2>2 DEF DispatchFails, CallApp, StartResponse, AppReturns, AppRaises, Yield,
                  IterationEnds, OnWrite, send_500, Write
    <3> QED
      BY <3>1 DEF EnvironInv
  <2>3. CASE UNCHANGED vars
    BY <2>3 DEF EnvironInv, vars
  <2> QED
    BY <2>1, <2>2, <2>3 DEF Next
<1>3. EnvironInv => EnvironIsComplete
  <2> SUFFICES ASSUME EnvironInv, at = "built"
               PROVE  EnvironIsComplete
    BY DEF EnvironIsComplete
  <2>1. PICK fields, has : fields = environ.of /\ has = environ.has
    OBVIOUS
  <2>2. fields \in Seq(Field) /\ has = build_environ(fields)
    BY <2>1, WsgiAssumption DEF EnvironInv, Field
  <2>3. DOMAIN fields = 1..Len(fields) /\ Len(fields) \in Nat /\ \A i \in DOMAIN fields : fields[i] \in Field
    BY <2>2
  <2>4. \A k : UpTo(fields, Len(fields), k) = Under(fields, k)
    BY <2>3 DEF UpTo, Under, Ordinary
  <2>5. Complete(fields, Len(fields), has)
    BY <2>2, BuildComplete
  <2> DEFINE keys == {wsgi_header_key(fields[i].name) : i \in Ordinary(fields)}
  <2>6. \A k : k[1] = "HTTP_" =>
          /\ k \in DOMAIN has <=> Under(fields, k) # {}
          /\ k \in DOMAIN has => Joined(has[k], fields, Under(fields, k), Sep(k))
    BY <2>4, <2>5 DEF Complete
  <2>7. \A k : k \in keys <=> Under(fields, k) # {}
    BY DEF Under
  <2>8. \A k \in keys : k[1] = "HTTP_"
    BY DEF wsgi_header_key
  <2>9. {k \in DOMAIN has : k[1] = "HTTP_"} = keys
    <3> HIDE DEF keys
    <3> QED
      BY <2>6, <2>7, <2>8
  <2>10. \A k \in keys : Joined(has[k], fields, Under(fields, k),
                                IF k = wsgi_header_key(CookieName) THEN "; " ELSE ", ")
    <3> HIDE DEF keys
    <3>1. \A k \in keys : Joined(has[k], fields, Under(fields, k), Sep(k))
      BY <2>6, <2>7, <2>8
    <3> QED
      BY <3>1 DEF Sep
  <2>11. \A h \in ToSet(fields) :
           (hdr_cache_lookup(h.name) # 0) <=> \E e \in ToSet(hdr_names) : IsNamed(h.name, e)
    <3> SUFFICES ASSUME NEW h \in ToSet(fields)
                 PROVE  (hdr_cache_lookup(h.name) # 0) <=> \E e \in ToSet(hdr_names) : IsNamed(h.name, e)
      OBVIOUS
    <3>1. h \in Field
      BY <2>3 DEF ToSet
    <3>2. h.name \in Seq(0..255)
      BY <3>1 DEF Field
    <3> QED
      BY <3>2, CacheKnowsEverySpelling
  <2> QED
    BY <2>1, <2>9, <2>10, <2>11, Zenon DEF EnvironIsComplete
<1> QED
  BY <1>1, <1>2, <1>3, PTL DEF Spec

=============================================================================
