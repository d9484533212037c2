-------------------------- MODULE TicketRingProofs --------------------------
(***************************************************************************)
(* Proofs about TicketRing, for any number of workers, slots, retries and  *)
(* keys: what a read returns was in force at one instant, whatever the     *)
(* order of the stores and the loads.                                      *)
(***************************************************************************)
EXTENDS TicketRing, TLAPS

Wiped == owner \in {"wiping", "wiped"}

\* How the page and seq stand to the table being put in force.
PageInv ==
  /\ owner = "idle" => page = target /\ seq % 2 = 0 /\ seq > 0
  /\ owner = "publishing" =>
       /\ seq % 2 = 1
       /\ left \in SUBSET Words
       /\ \A w \in Words \ left : page[w] = target[w]
  /\ owner = "killed" => seq % 2 = 1 \/ (page = target /\ seq > 0)
  /\ Wiped => \A w \in Words : page[w] \in {0, target[w]}

\* The slots in force hold whole keys.
Paired(t) == \A i \in Slots : t[<<i, "name">>] = t[<<i, "secret">>]

\* A reader that would be told "unchanged" has copied the table in force.
CopyInv(k, s, t, blank) ==
  /\ k.pc \in {"load", "copy", "done"} => k.scope \in Scopes
  /\ k.pc \in {"load", "copy"} => k.tries < TLS_TICKET_SEQ_RETRIES
  /\ k.pc = "copy" =>
       /\ k.s1 > 0 /\ k.s1 % 2 = 0
       /\ k.s1 <= s \/ s = 0
       /\ k.todo \in SUBSET k.scope
       /\ s = k.s1 => \A w \in k.scope \ k.todo :
                         k.snap[w] = t[w] \/ (blank /\ k.snap[w] = 0)
  /\ k.pc \in {"idle", "load", "declined"} => k.snap = Zero
  /\ k.pc = "done" /\ k.scope # {Due} =>
       \A i \in Slots : \/ k.snap[<<i, "name">>] = k.snap[<<i, "secret">>]
                        \/ k.snap[<<i, "name">>] = 0
                        \/ k.snap[<<i, "secret">>] = 0

\* Rotations since slot i was filled, when slot j was filled last.
Since(i, j) == IF i <= j THEN j - i ELSE j - i + TLS_TICKET_RING

\* The slots are filled in turn.
InTurn(t, n) ==
  \A i \in Slots : t[<<i, "secret">>] \in {0, n - Since(i, t[Cur])}

Inv ==
  /\ TypeOK /\ PageInv /\ Paired(target)
  /\ target[Cur] \in Slots
  /\ InTurn(target, minted)
  /\ \A r \in Workers : CopyInv(rd[r], seq, target, Wiped)

\* Every word of a slot is one of the words.
LEMMA WordsLemma ==
  /\ \A i \in Slots : KeyWords(i) \in SUBSET Words /\ <<i, "name">> \in Words /\ <<i, "secret">> \in Words
  /\ Cur \in Words /\ Due \in Words /\ Zero \in [Words -> Nat]
  /\ <<0, "seq">> \notin Words
BY DEF Words, KeyWords, Cur, Due, Zero, Slots

\* tls_ticket_ring_publish leaves a table of whole keys, its newest current.
LEMMA WithKeyLemma ==
  ASSUME NEW t \in [Words -> Nat], Paired(t), NEW i \in Slots, NEW n \in Nat
  PROVE  /\ WithKey(t, i, n) \in [Words -> Nat] /\ Paired(WithKey(t, i, n))
         /\ WithKey(t, i, n)[Cur] = i
         /\ \A w \in Words \ (KeyWords(i) \cup {Cur, Due}) : WithKey(t, i, n)[w] = t[w]
<1>1. i \in Nat
  BY RingAssumption DEF Slots
<1>2. WithKey(t, i, n) \in [Words -> Nat]
  BY <1>1 DEF WithKey
<1>3. \A j \in Slots : /\ <<j, "name">> \in Words /\ <<j, "secret">> \in Words
                       /\ <<j, "name">> \notin {Cur, Due} /\ <<j, "secret">> \notin {Cur, Due}
  BY DEF Words, Cur, Due
<1>4. \A j \in Slots : <<j, "name">> \in KeyWords(i) <=> j = i
  BY DEF KeyWords
<1>5. \A j \in Slots : <<j, "secret">> \in KeyWords(i) <=> j = i
  BY DEF KeyWords
<1>6. \A j \in Slots : WithKey(t, i, n)[<<j, "name">>] = WithKey(t, i, n)[<<j, "secret">>]
  <2> TAKE j \in Slots
  <2>1. WithKey(t, i, n)[<<j, "name">>] = IF j = i THEN n ELSE t[<<j, "name">>]
    BY <1>3, <1>4 DEF WithKey
  <2>2. WithKey(t, i, n)[<<j, "secret">>] = IF j = i THEN n ELSE t[<<j, "secret">>]
    BY <1>3, <1>5 DEF WithKey
  <2> QED BY <2>1, <2>2 DEF Paired
<1>7. WithKey(t, i, n)[Cur] = i
  BY WordsLemma DEF WithKey
<1>8. \A w \in Words \ (KeyWords(i) \cup {Cur, Due}) : WithKey(t, i, n)[w] = t[w]
  BY DEF WithKey
<1> QED
  BY <1>2, <1>6, <1>7, <1>8 DEF Paired

\* The next slot is one of the slots.
LEMMA SlotLemma ==
  ASSUME Inv, owner = "idle"
  PROVE  NextSlot \in Slots
BY RingAssumption DEF Inv, PageInv, NextSlot, Slots

\* Adding one to a slot number wraps at the end and nowhere else.
LEMMA WrapLemma ==
  ASSUME NEW j \in Slots
  PROVE  (j + 1) % TLS_TICKET_RING = IF j + 1 = TLS_TICKET_RING THEN 0 ELSE j + 1
BY RingAssumption DEF Slots

\* Publishing into the next slot keeps the slots in turn.
LEMMA InTurnLemma ==
  ASSUME NEW t \in [Words -> Nat], NEW n \in Nat, t[Cur] \in Slots, InTurn(t, n),
         NEW next, next = (t[Cur] + 1) % TLS_TICKET_RING
  PROVE  InTurn(WithKey(t, next, n + 1), n + 1)
<1> SUFFICES ASSUME NEW d, d = WithKey(t, next, n + 1)
             PROVE  InTurn(d, n + 1)
  OBVIOUS
<1>1. next = IF t[Cur] + 1 = TLS_TICKET_RING THEN 0 ELSE t[Cur] + 1
  BY WrapLemma
<1>2. next \in Slots /\ TLS_TICKET_RING \in Nat \ {0}
  BY <1>1, RingAssumption DEF Slots
<1>3. d[Cur] = next
  BY WordsLemma DEF WithKey
<1>4. \A j \in Slots : d[<<j, "secret">>] = IF j = next THEN n + 1 ELSE t[<<j, "secret">>]
  <2> TAKE j \in Slots
  <2>1. <<j, "secret">> \in Words /\ <<j, "secret">> \notin {Cur, Due}
    BY DEF Words, Cur, Due
  <2>2. <<j, "secret">> \in KeyWords(next) <=> j = next
    BY DEF KeyWords
  <2> QED
    BY <2>1, <2>2 DEF WithKey
<1>5. Since(next, next) = 0
  BY <1>2 DEF Since, Slots
<1>6. \A j \in Slots : j # next => Since(j, next) = Since(j, t[Cur]) + 1
  BY <1>1, <1>2 DEF Since, Slots
<1>7. \A j \in Slots : Since(j, t[Cur]) \in Int
  BY <1>2 DEF Since, Slots
<1> SUFFICES ASSUME NEW j \in Slots
             PROVE  d[<<j, "secret">>] \in {0, (n + 1) - Since(j, d[Cur])}
  BY DEF InTurn
<1>8. CASE j = next
  BY <1>8, <1>3, <1>4, <1>5
<1>9. CASE j # next
  <2>1. t[<<j, "secret">>] \in {0, n - Since(j, t[Cur])}
    BY DEF InTurn
  <2> QED
    BY <1>9, <2>1, <1>3, <1>4, <1>6, <1>7
<1> QED
  BY <1>8, <1>9

\* tls_ticket_ring_create leaves the invariant true for the first worker.
LEMMA InitInv == Init => Inv
<1> SUFFICES ASSUME Init PROVE Inv
  OBVIOUS
<1>1. 0 \in Slots
  BY RingAssumption DEF Slots
<1>2. Paired(Zero)
  BY WordsLemma DEF Paired, Zero
<1>3. /\ target \in [Words -> Nat] /\ Paired(target) /\ target[Cur] = 0
  BY <1>1, <1>2, WithKeyLemma, WordsLemma DEF Init
<1>4. Idle \in Reader
  BY WordsLemma, RingAssumption DEF Idle, Reader
<1>5. TypeOK
  BY <1>3, <1>4, RingAssumption DEF Init, TypeOK
<1>6. PageInv
  BY DEF Init, PageInv, Wiped
<1>7. \A r \in Workers : CopyInv(rd[r], seq, target, Wiped)
  BY DEF Init, CopyInv, Idle
<1>8. InTurn(target, minted)
  <2> SUFFICES ASSUME NEW i \in Slots
               PROVE  target[<<i, "secret">>] \in {0, 1 - Since(i, 0)}
    BY <1>3 DEF InTurn, Init
  <2>1. <<i, "secret">> \in Words /\ <<i, "secret">> \notin {Cur, Due}
    BY DEF Words, Cur, Due
  <2>2. <<i, "secret">> \in KeyWords(0) <=> i = 0
    BY DEF KeyWords
  <2>3. target[<<i, "secret">>] = IF i = 0 THEN 1 ELSE 0
    BY <2>1, <2>2 DEF Init, WithKey, Zero
  <2>4. Since(0, 0) = 0
    BY DEF Since
  <2> QED
    BY <2>3, <2>4
<1> QED
  BY <1>1, <1>3, <1>5, <1>6, <1>7, <1>8 DEF Inv

-----------------------------------------------------------------------------
(* The owner's steps *)

\* What a worker copied stays as good as it was when seq moves on, or when
\* neither seq nor the table in force changes.
LEMMA CopyFrame ==
  ASSUME NEW k \in Reader, NEW s \in Nat, NEW t, NEW blank \in BOOLEAN,
         CopyInv(k, s, t, blank),
         NEW s2 \in Nat, NEW t2, NEW blank2 \in BOOLEAN,
         \/ s2 = s /\ t2 = t /\ (blank => blank2)
         \/ s2 = s + 1 /\ s > 0
         \/ s2 = 0
  PROVE  CopyInv(k, s2, t2, blank2)
<1>1. k.s1 \in Nat
  BY DEF Reader
<1>2. CASE s2 = s /\ t2 = t /\ (blank => blank2)
  BY <1>2 DEF CopyInv
<1>3. CASE (s2 = s + 1 /\ s > 0) \/ s2 = 0
  <2>1. k.pc = "copy" => s2 # k.s1 /\ (k.s1 <= s2 \/ s2 = 0)
    BY <1>1, <1>3 DEF CopyInv
  <2> QED
    BY <2>1 DEF CopyInv
<1> QED
  BY <1>2, <1>3

\* The same for all workers at once.
LEMMA CopiesFrame ==
  ASSUME Inv, seq' \in Nat, rd' = rd,
         \/ seq' = seq /\ target' = target /\ (Wiped => Wiped')
         \/ seq' = seq + 1 /\ seq > 0
         \/ seq' = 0
  PROVE  \A r \in Workers : CopyInv(rd[r], seq, target, Wiped)'
<1> TAKE r \in Workers
<1>1. /\ rd[r] \in Reader /\ seq \in Nat /\ CopyInv(rd[r], seq, target, Wiped)
  BY DEF Inv, TypeOK
<1>2. Wiped \in BOOLEAN /\ Wiped' \in BOOLEAN
  BY DEF Wiped
<1>3. CopyInv(rd[r], seq', target', Wiped')
  BY <1>1, <1>2, CopyFrame
<1> QED
  BY <1>3

\* tls_ticket_ring_rotate_owned opens the window.
LEMMA BeginPublishStep == Inv /\ BeginPublish => Inv'
<1> SUFFICES ASSUME Inv, BeginPublish PROVE Inv'
  OBVIOUS
<1> USE DEF BeginPublish
<1>1. page = target /\ seq % 2 = 0 /\ seq > 0 /\ seq \in Nat /\ minted \in Nat
  BY DEF Inv, PageInv, TypeOK
<1>2. NextSlot \in Slots /\ NextSlot = (target[Cur] + 1) % TLS_TICKET_RING
  BY <1>1, SlotLemma DEF NextSlot
<1>3. /\ target' \in [Words -> Nat] /\ Paired(target') /\ target'[Cur] \in Slots
      /\ \A w \in Words \ left' : target'[w] = page[w]
  BY <1>1, <1>2, WithKeyLemma DEF Inv, TypeOK
<1>4. InTurn(target', minted')
  BY <1>1, <1>2, InTurnLemma DEF Inv, TypeOK
<1>5. left' \in SUBSET Words
  BY <1>2, WordsLemma
<1>6. TypeOK'
  BY <1>1, <1>3, <1>5, RingAssumption DEF Inv, TypeOK
<1>7. PageInv'
  BY <1>1, <1>3, <1>5 DEF PageInv, Wiped
<1>8. \A r \in Workers : CopyInv(rd[r], seq, target, Wiped)'
  BY <1>1, CopiesFrame
<1> QED
  BY <1>3, <1>4, <1>6, <1>7, <1>8 DEF Inv

\* A store inside the window, of a zero or of the new key.
LEMMA StoreStep == Inv /\ (ClearWord \/ StoreWord) => Inv'
<1> SUFFICES ASSUME Inv, ClearWord \/ StoreWord PROVE Inv'
  OBVIOUS
<1>1. /\ owner = "publishing" /\ owner' = owner /\ seq' = seq /\ target' = target
      /\ minted' = minted /\ rd' = rd
  BY DEF ClearWord, StoreWord
<1>2. TypeOK /\ PageInv
  BY DEF Inv
<1>3. \A w \in Words \ left' : page'[w] = target[w]
  BY <1>1, <1>2 DEF ClearWord, StoreWord, PageInv, TypeOK
<1>4. page' \in [Words -> Nat] /\ left' \in SUBSET Words
  BY <1>1, <1>2 DEF ClearWord, StoreWord, PageInv, TypeOK
<1>5. TypeOK'
  BY <1>1, <1>2, <1>4 DEF TypeOK
<1>6. PageInv'
  BY <1>1, <1>2, <1>3, <1>4 DEF PageInv, Wiped
<1>7. \A r \in Workers : CopyInv(rd[r], seq, target, Wiped)'
  BY <1>1, <1>2, CopiesFrame DEF TypeOK, Wiped
<1> QED
  BY <1>1, <1>5, <1>6, <1>7 DEF Inv

\* The window closes on the new table.
LEMMA EndPublishStep == Inv /\ EndPublish => Inv'
<1> SUFFICES ASSUME Inv, EndPublish PROVE Inv'
  OBVIOUS
<1> USE DEF EndPublish
<1>1. TypeOK /\ PageInv
  BY DEF Inv
<1>2. seq \in Nat /\ seq % 2 = 1 /\ \A w \in Words : page[w] = target[w]
  BY <1>1 DEF TypeOK, PageInv
<1>3. page = target
  BY <1>1, <1>2 DEF TypeOK
<1>4. seq' \in Nat /\ seq' % 2 = 0 /\ seq' > 0 /\ seq > 0
  BY <1>2
<1>5. TypeOK'
  BY <1>1, <1>4 DEF TypeOK
<1>6. PageInv'
  BY <1>3, <1>4 DEF PageInv, Wiped
<1>7. \A r \in Workers : CopyInv(rd[r], seq, target, Wiped)'
  BY <1>4, CopiesFrame
<1> QED
  BY <1>5, <1>6, <1>7 DEF Inv

\* tls_ticket_ring_destroy, from its first store to its last.
LEMMA WipeStep == Inv /\ (BeginWipe \/ WipeWord) => Inv'
<1> SUFFICES ASSUME Inv, BeginWipe \/ WipeWord PROVE Inv'
  OBVIOUS
<1>1. TypeOK /\ PageInv
  BY DEF Inv
<1>2. target' = target /\ minted' = minted /\ rd' = rd
  BY DEF BeginWipe, WipeWord
<1>3. owner' \in {"wiping", "wiped"}
  BY DEF BeginWipe, WipeWord
<1>4. /\ seq' \in {seq, 0}
      /\ page' \in [Words -> Nat] /\ left' \in SUBSET (Words \cup {<<0, "seq">>})
      /\ \A w \in Words : page'[w] \in {0, target[w]}
  <2>1. CASE BeginWipe
    BY <1>1, <2>1 DEF BeginWipe, TypeOK, PageInv
  <2>2. CASE WipeWord
    <3>1. \A w \in Words : page[w] \in {0, target[w]}
      BY <1>1, <2>2 DEF WipeWord, PageInv, Wiped
    <3>2. PICK w \in left :
            /\ left' = left \ {w}
            /\ IF w = <<0, "seq">> THEN seq' = 0 /\ page' = page
                                   ELSE seq' = seq /\ page' = [page EXCEPT ![w] = 0]
      BY <2>2 DEF WipeWord
    <3> QED
      BY <1>1, <3>1, <3>2 DEF TypeOK
  <2> QED
    BY <2>1, <2>2
<1>5. TypeOK'
  BY <1>1, <1>2, <1>3, <1>4 DEF TypeOK
<1>6. PageInv'
  BY <1>2, <1>3, <1>4 DEF PageInv, Wiped
<1>7. \A r \in Workers : CopyInv(rd[r], seq, target, Wiped)'
  BY <1>1, <1>2, <1>3, <1>4, CopiesFrame DEF TypeOK, Wiped
<1> QED
  BY <1>2, <1>5, <1>6, <1>7 DEF Inv

\* SIGKILL, wherever the owner was.
LEMMA KilledStep == Inv /\ OwnerKilled => Inv'
<1> SUFFICES ASSUME Inv, OwnerKilled PROVE Inv'
  OBVIOUS
<1> USE DEF OwnerKilled
<1>1. TypeOK /\ PageInv
  BY DEF Inv
<1>2. TypeOK'
  BY <1>1 DEF TypeOK
<1>3. PageInv'
  BY <1>1 DEF PageInv, Wiped
<1>4. \A r \in Workers : CopyInv(rd[r], seq, target, Wiped)'
  BY <1>1, CopiesFrame DEF TypeOK, Wiped
<1> QED
  BY <1>2, <1>3, <1>4 DEF Inv

-----------------------------------------------------------------------------
(* A worker's steps *)

\* Only the reader that took the step has to be looked at.
LEMMA ReaderFrame ==
  ASSUME Inv, NEW r \in Workers, NEW k, k \in Reader,
         rd' = [rd EXCEPT ![r] = k], CopyInv(k, seq, target, Wiped),
         UNCHANGED <<seq, page, owner, target, left, minted>>
  PROVE  Inv'
<1>1. TypeOK /\ PageInv /\ \A q \in Workers : CopyInv(rd[q], seq, target, Wiped)
  BY DEF Inv
<1>2. TypeOK'
  BY <1>1 DEF TypeOK
<1>3. PageInv'
  BY <1>1 DEF PageInv, Wiped
<1>4. Wiped' = Wiped
  BY DEF Wiped
<1>5. ASSUME NEW q \in Workers
      PROVE  CopyInv(rd'[q], seq, target, Wiped)
  <2>1. CASE q = r
    BY <1>1, <2>1 DEF TypeOK
  <2>2. CASE q # r
    BY <1>1, <2>2 DEF TypeOK
  <2> QED
    BY <2>1, <2>2
<1>6. \A q \in Workers : CopyInv(rd[q], seq, target, Wiped)'
  BY <1>4, <1>5
<1> QED
  BY <1>2, <1>3, <1>6 DEF Inv

\* Giving up an attempt leaves nothing behind.
LEMMA RetryLemma ==
  ASSUME NEW k \in Reader, NEW s, NEW t, NEW blank, k.pc \in {"load", "copy"},
         k.scope \in Scopes, k.tries < TLS_TICKET_SEQ_RETRIES
  PROVE  /\ Retry(k) \in Reader /\ Retry(k).pc \in {"load", "declined"}
         /\ Retry(k).snap = Zero
         /\ CopyInv(Retry(k), s, t, blank)
<1>1. k.tries + 1 \in 0..TLS_TICKET_SEQ_RETRIES
  BY RingAssumption DEF Reader
<1>2. Retry(k) \in Reader
  BY <1>1, WordsLemma DEF Retry, Reader
<1>3. /\ Retry(k).pc \in {"load", "declined"} /\ Retry(k).snap = Zero
      /\ Retry(k).scope = k.scope
      /\ Retry(k).pc = "load" => Retry(k).tries < TLS_TICKET_SEQ_RETRIES
  BY DEF Retry, Reader
<1> QED
  BY <1>2, <1>3 DEF CopyInv

\* A read starts, from the start of its budget.
LEMMA BeginReadStep == ASSUME NEW r \in Workers PROVE Inv /\ BeginRead(r) => Inv'
<1> SUFFICES ASSUME Inv, BeginRead(r) PROVE Inv'
  OBVIOUS
<1>1. PICK s \in Scopes : rd' = [rd EXCEPT ![r] = [Idle EXCEPT !.pc = "load", !.scope = s]]
  BY DEF BeginRead
<1> DEFINE k == [Idle EXCEPT !.pc = "load", !.scope = s]
<1>2. k \in Reader
  <2>1. Idle \in Reader
    BY WordsLemma, RingAssumption DEF Idle, Reader
  <2> QED
    BY <2>1 DEF Reader
<1>3. k.pc = "load" /\ k.scope = s /\ k.snap = Zero /\ k.tries = 0
  BY DEF Idle
<1> HIDE DEF k
<1>4. CopyInv(k, seq, target, Wiped)
  BY <1>3, RingAssumption DEF CopyInv
<1>5. UNCHANGED <<seq, page, owner, target, left, minted>>
  BY DEF BeginRead
<1>6. rd' = [rd EXCEPT ![r] = k]
  BY <1>1 DEF k
<1> QED
  BY <1>2, <1>4, <1>5, <1>6, ReaderFrame

\* s1 is taken from an unlocked page, or the attempt fails.
LEMMA LoadSeqStep == ASSUME NEW r \in Workers PROVE Inv /\ LoadSeq(r) => Inv'
<1> SUFFICES ASSUME Inv, LoadSeq(r) PROVE Inv'
  OBVIOUS
<1> DEFINE k == rd[r]
           copying == [k EXCEPT !.pc = "copy", !.s1 = seq, !.todo = k.scope]
<1>1. k \in Reader /\ CopyInv(k, seq, target, Wiped) /\ seq \in Nat
  BY DEF Inv, TypeOK
<1>2. k.pc = "load" /\ k.scope \in Scopes /\ k.tries < TLS_TICKET_SEQ_RETRIES
  BY <1>1 DEF LoadSeq, CopyInv
<1>3. k.scope \in SUBSET Words
  BY <1>2, WordsLemma DEF Scopes
<1>4. UNCHANGED <<seq, page, owner, target, left, minted>>
  BY DEF LoadSeq
<1>5. CASE seq = 0 \/ seq % 2 = 1
  <2>1. rd' = [rd EXCEPT ![r] = Retry(k)]
    BY <1>5 DEF LoadSeq
  <2> HIDE DEF k
  <2>2. Retry(k) \in Reader /\ CopyInv(Retry(k), seq, target, Wiped)
    BY <1>1, <1>2, RetryLemma
  <2> QED
    BY <1>4, <2>1, <2>2, ReaderFrame
<1>6. CASE ~(seq = 0 \/ seq % 2 = 1)
  <2>1. rd' = [rd EXCEPT ![r] = copying]
    BY <1>6 DEF LoadSeq
  <2>2. copying \in Reader
    BY <1>1, <1>2, <1>3 DEF Reader
  <2>3. /\ copying.pc = "copy" /\ copying.s1 = seq /\ copying.todo = k.scope
        /\ copying.scope = k.scope /\ copying.tries = k.tries
    BY <1>1 DEF Reader
  <2> HIDE DEF copying, k
  <2>4. seq > 0 /\ seq % 2 = 0
    BY <1>1, <1>6
  <2>5. CopyInv(copying, seq, target, Wiped)
    BY <1>1, <1>2, <2>3, <2>4 DEF CopyInv
  <2> QED
    BY <1>4, <2>1, <2>2, <2>5, ReaderFrame
<1> QED
  BY <1>5, <1>6

\* A load under an unchanged seq finds the table in force, or a blank.
LEMMA CopyWordStep == ASSUME NEW r \in Workers PROVE Inv /\ CopyWord(r) => Inv'
<1> SUFFICES ASSUME Inv, CopyWord(r) PROVE Inv'
  OBVIOUS
<1> DEFINE k == rd[r]
<1>1. k \in Reader /\ CopyInv(k, seq, target, Wiped) /\ TypeOK /\ PageInv
  BY DEF Inv, TypeOK
<1>2. k.pc = "copy"
  BY DEF CopyWord
<1>3. PICK w \in k.todo : rd' = [rd EXCEPT ![r].snap[w] = page[w], ![r].todo = @ \ {w}]
  BY DEF CopyWord
<1> DEFINE d == [k EXCEPT !.snap[w] = page[w], !.todo = @ \ {w}]
<1>4. w \in Words /\ page[w] \in Nat
  BY <1>1 DEF Reader, TypeOK
<1>5. rd' = [rd EXCEPT ![r] = d]
  BY <1>1, <1>3 DEF TypeOK, Reader
<1>6. d \in Reader
  BY <1>1, <1>4 DEF Reader
<1>7. /\ d.pc = "copy" /\ d.s1 = k.s1 /\ d.scope = k.scope /\ d.todo = k.todo \ {w}
      /\ d.tries = k.tries /\ d.snap = [k.snap EXCEPT ![w] = page[w]]
  BY <1>1, <1>2 DEF Reader
<1>8. k.s1 > 0 /\ k.s1 % 2 = 0 /\ k.todo \in SUBSET k.scope /\ k.scope \in SUBSET Words
  BY <1>1, <1>2, WordsLemma DEF CopyInv, Scopes
<1>9. seq = k.s1 => page[w] = target[w] \/ (Wiped /\ page[w] = 0)
  BY <1>1, <1>4, <1>8 DEF PageInv, TypeOK, Wiped
<1>10. seq = k.s1 => \A v \in d.scope \ d.todo :
                       d.snap[v] = target[v] \/ (Wiped /\ d.snap[v] = 0)
  <2> SUFFICES ASSUME seq = k.s1, NEW v \in d.scope \ d.todo
               PROVE  d.snap[v] = target[v] \/ (Wiped /\ d.snap[v] = 0)
    OBVIOUS
  <2> HIDE DEF d
  <2>1. v \in Words /\ k.snap \in [Words -> Nat]
    BY <1>1, <1>7, <1>8 DEF Reader
  <2>2. CASE v = w
    BY <1>7, <1>9, <2>1, <2>2
  <2>3. CASE v # w
    <3>1. v \in k.scope \ k.todo
      BY <1>7, <2>3
    <3>2. k.snap[v] = target[v] \/ (Wiped /\ k.snap[v] = 0)
      BY <1>1, <1>2, <3>1 DEF CopyInv
    <3> QED
      BY <1>7, <2>1, <2>3, <3>2
  <2> QED
    BY <2>2, <2>3
<1> HIDE DEF d
<1>11. CopyInv(d, seq, target, Wiped)
  BY <1>1, <1>2, <1>7, <1>8, <1>10 DEF CopyInv
<1> QED
  BY <1>5, <1>6, <1>11, ReaderFrame DEF CopyWord

\* The table in force holds whole keys, so a copy of it does.
LEMMA CopiedLemma ==
  ASSUME Inv, NEW k \in Reader, CopyInv(k, seq, target, Wiped), k.pc = "copy",
         k.todo = {}, seq = k.s1, k.scope # {Due}, NEW i \in Slots
  PROVE  \/ k.snap[<<i, "name">>] = k.snap[<<i, "secret">>]
         \/ k.snap[<<i, "name">>] = 0
         \/ k.snap[<<i, "secret">>] = 0
<1>1. k.scope = Words \ {Due}
  BY DEF CopyInv, Scopes
<1>2. <<i, "name">> \in k.scope /\ <<i, "secret">> \in k.scope
  BY <1>1, WordsLemma DEF Due
<1>3. /\ k.snap[<<i, "name">>] \in {0, target[<<i, "name">>]}
      /\ k.snap[<<i, "secret">>] \in {0, target[<<i, "secret">>]}
  BY <1>2 DEF CopyInv
<1>4. target[<<i, "name">>] = target[<<i, "secret">>]
  BY DEF Inv, Paired
<1> QED
  BY <1>3, <1>4

\* The second look at seq accepts the copy or gives up the attempt.
LEMMA CheckSeqStep == ASSUME NEW r \in Workers PROVE Inv /\ CheckSeq(r) => Inv'
<1> SUFFICES ASSUME Inv, CheckSeq(r) PROVE Inv'
  OBVIOUS
<1> DEFINE k == rd[r]
           d == [k EXCEPT !.pc = "done"]
<1>1. k \in Reader /\ CopyInv(k, seq, target, Wiped)
  BY DEF Inv, TypeOK
<1>2. /\ k.pc = "copy" /\ k.todo = {} /\ k.scope \in Scopes
      /\ k.tries < TLS_TICKET_SEQ_RETRIES
  BY <1>1 DEF CheckSeq, CopyInv
<1>3. UNCHANGED <<seq, page, owner, target, left, minted>>
  BY DEF CheckSeq
<1>4. CASE seq # k.s1
  <2>1. rd' = [rd EXCEPT ![r] = Retry(k)]
    BY <1>4 DEF CheckSeq
  <2> HIDE DEF k
  <2>2. Retry(k) \in Reader /\ CopyInv(Retry(k), seq, target, Wiped)
    BY <1>1, <1>2, RetryLemma
  <2> QED
    BY <1>3, <2>1, <2>2, ReaderFrame
<1>5. CASE seq = k.s1
  <2>1. rd' = [rd EXCEPT ![r] = d]
    BY <1>5 DEF CheckSeq
  <2>2. d \in Reader /\ d.pc = "done" /\ d.scope = k.scope /\ d.snap = k.snap
    BY <1>1 DEF Reader
  <2> HIDE DEF d, k
  <2>3. d.scope # {Due} =>
          \A i \in Slots : \/ d.snap[<<i, "name">>] = d.snap[<<i, "secret">>]
                           \/ d.snap[<<i, "name">>] = 0
                           \/ d.snap[<<i, "secret">>] = 0
    BY <1>1, <1>2, <1>5, <2>2, CopiedLemma
  <2>4. CopyInv(d, seq, target, Wiped)
    BY <1>2, <2>2, <2>3 DEF CopyInv
  <2> QED
    BY <1>3, <2>1, <2>2, <2>4, ReaderFrame
<1> QED
  BY <1>4, <1>5

\* The copy is zeroized after use.
LEMMA EndReadStep == ASSUME NEW r \in Workers PROVE Inv /\ EndRead(r) => Inv'
<1> SUFFICES ASSUME Inv, EndRead(r) PROVE Inv'
  OBVIOUS
<1>1. Idle \in Reader
  BY WordsLemma, RingAssumption DEF Idle, Reader
<1>2. CopyInv(Idle, seq, target, Wiped)
  BY DEF CopyInv, Idle
<1> QED
  BY <1>1, <1>2, ReaderFrame DEF EndRead

-----------------------------------------------------------------------------

\* Every step of the owner or of a worker keeps the invariant.
LEMMA NextInv == Inv /\ [Next]_vars => Inv'
<1> SUFFICES ASSUME Inv, [Next]_vars PROVE Inv'
  OBVIOUS
<1>1. CASE BeginPublish
  BY <1>1, BeginPublishStep
<1>2. CASE ClearWord \/ StoreWord
  BY <1>2, StoreStep
<1>3. CASE EndPublish
  BY <1>3, EndPublishStep
<1>4. CASE BeginWipe \/ WipeWord
  BY <1>4, WipeStep
<1>5. CASE OwnerKilled
  BY <1>5, KilledStep
<1>6. ASSUME NEW r \in Workers, ReadStep(r) PROVE Inv'
  BY <1>6, BeginReadStep, LoadSeqStep, CopyWordStep, CheckSeqStep, EndReadStep DEF ReadStep
<1>7. CASE UNCHANGED vars
  BY <1>7 DEF vars, Inv, TypeOK, PageInv, Wiped
<1> QED
  BY <1>1, <1>2, <1>3, <1>4, <1>5, <1>6, <1>7 DEF Next

\* The invariant holds throughout.
LEMMA RingInvariant == Spec => []Inv
<1> QED
  BY InitInv, NextInv, PTL DEF Spec

(***************************************************************************)
(* Every value the page, the sequence lock and the readers take is of its  *)
(* type, whatever the interleaving.                                        *)
(***************************************************************************)
THEOREM RingTypeCorrect == Spec => []TypeOK
<1>1. Inv => TypeOK
  BY DEF Inv
<1> QED
  BY <1>1, RingInvariant, PTL

(***************************************************************************)
(* A worker never pairs one key's name with another key's bytes, for any   *)
(* number of workers and slots and any order of the loads and stores.      *)
(***************************************************************************)
THEOREM KeysNeverMixed == Spec => []NeverMixed
<1>1. Inv => NeverMixed
  BY DEF Inv, NeverMixed, CopyInv
<1> QED
  BY <1>1, RingInvariant, PTL

(***************************************************************************)
(* After every rotation only the youngest TLS_TICKET_RING keys are left.   *)
(***************************************************************************)
THEOREM RetiredKeysAreErased == Spec => []RetiredKeysErased
<1>1. ASSUME Inv PROVE RetiredKeysErased
  <2>1. ASSUME owner = "idle", NEW i \in Slots
        PROVE  page[<<i, "secret">>] = 0 \/ page[<<i, "secret">>] > minted - TLS_TICKET_RING
    <3>1. page = target /\ minted \in Nat /\ target[Cur] \in Slots
      BY <1>1, <2>1 DEF Inv, PageInv, TypeOK
    <3>2. Since(i, target[Cur]) \in Int /\ Since(i, target[Cur]) < TLS_TICKET_RING
      BY <3>1, RingAssumption DEF Since, Slots
    <3>3. target[<<i, "secret">>] \in {0, minted - Since(i, target[Cur])}
      BY <1>1 DEF Inv, InTurn
    <3> QED
      BY <3>1, <3>2, <3>3, RingAssumption
  <2>2. \A r \in Workers : rd[r].pc \in {"idle", "load", "declined"} => rd[r].snap = Zero
    BY <1>1 DEF Inv, CopyInv
  <2> QED
    BY <2>1, <2>2 DEF RetiredKeysErased
<1> QED
  BY <1>1, RingInvariant, PTL

-----------------------------------------------------------------------------
(* Refinement *)

\* What a read answers depends on the reader only.
AnswerOf(k) ==
  CASE k.pc = "done" -> [state |-> "done", scope |-> k.scope, read |-> k.snap]
    [] k.pc = "declined" -> [state |-> "declined", scope |-> {}, read |-> Zero]
    [] OTHER -> [state |-> "none", scope |-> {}, read |-> Zero]

\* The three kinds of answer.
LEMMA AnswerLemma ==
  ASSUME NEW k
  PROVE  /\ k.pc = "done" => AnswerOf(k) = [state |-> "done", scope |-> k.scope, read |-> k.snap]
         /\ k.pc = "declined" => AnswerOf(k) = [state |-> "declined", scope |-> {}, read |-> Zero]
         /\ k.pc \notin {"done", "declined"} => AnswerOf(k) = Atomic!Nothing
BY DEF AnswerOf, Atomic!Nothing, Zero

\* The refinement mapping takes the readers one by one.
LEMMA AnswersLemma == Answers = [r \in Workers |-> AnswerOf(rd[r])]
BY DEF Answers, AnswerOf

\* A step that changes no answer and no table is a stutter of AtomicRing.
LEMMA InvisibleStep ==
  ASSUME rd' = rd, target' = target, Wiped' = Wiped
  PROVE  UNCHANGED Atomic!vars
<1>1. Answers' = Answers
  BY DEF Answers
<1> QED
  BY <1>1 DEF Atomic!vars, Wiped

\* A step of one reader changes that reader's answer only.
LEMMA ReaderAnswer ==
  ASSUME Inv, NEW r \in Workers, NEW d, rd' = [rd EXCEPT ![r] = d],
         UNCHANGED <<owner, target>>
  PROVE  /\ Answers' = [Answers EXCEPT ![r] = AnswerOf(d)]
         /\ Answers[r] = AnswerOf(rd[r])
         /\ AnswerOf(d) = AnswerOf(rd[r]) => UNCHANGED Atomic!vars
<1>1. rd \in [Workers -> Reader]
  BY DEF Inv, TypeOK
<1>2. Answers' = [q \in Workers |-> AnswerOf(rd'[q])]
  BY DEF Answers, AnswerOf
<1>3. \A q \in Workers : rd'[q] = IF q = r THEN d ELSE rd[q]
  BY <1>1
<1>4. Answers' = [Answers EXCEPT ![r] = AnswerOf(d)]
  BY <1>2, <1>3, AnswersLemma
<1>5. Answers[r] = AnswerOf(rd[r])
  BY AnswersLemma
<1>6. AnswerOf(d) = AnswerOf(rd[r]) => Answers' = Answers
  BY <1>2, <1>3, AnswersLemma
<1> QED
  BY <1>4, <1>5, <1>6 DEF Atomic!vars

\* A declined read is one of AtomicRing's answers, a retry is no step of it.
LEMMA RetryRefines ==
  ASSUME Inv, NEW r \in Workers, rd[r].pc \in {"load", "copy"},
         rd' = [rd EXCEPT ![r] = Retry(rd[r])],
         UNCHANGED <<seq, page, owner, target, left, minted>>
  PROVE  [Atomic!Next]_Atomic!vars
<1> DEFINE k == rd[r]
           d == Retry(rd[r])
<1>1. k \in Reader /\ CopyInv(k, seq, target, Wiped)
  BY DEF Inv, TypeOK
<1>2. d.pc \in {"load", "declined"}
  BY <1>1, RetryLemma DEF CopyInv
<1>3. AnswerOf(k) = Atomic!Nothing
  BY AnswerLemma
<1> HIDE DEF d, k
<1>4. CASE d.pc = "load"
  <2>1. AnswerOf(d) = AnswerOf(k)
    BY <1>3, <1>4, AnswerLemma
  <2> QED
    BY <2>1, ReaderAnswer DEF d, k
<1>5. CASE d.pc = "declined"
  <2>1. AnswerOf(d) = [state |-> "declined", scope |-> {}, read |-> Zero]
    BY <1>5, AnswerLemma
  <2>2. AnswerOf(d) = [Atomic!Nothing EXCEPT !.state = "declined"]
    BY <2>1 DEF Atomic!Nothing, Zero
  <2>3. Answers' = [Answers EXCEPT ![r] = AnswerOf(d)] /\ Answers[r] = Atomic!Nothing
    BY <1>3, ReaderAnswer DEF d, k
  <2>4. Answers'[r] = AnswerOf(d)
    BY <2>3 DEF Answers
  <2>5. Atomic!Answer(r, Answers'[r])
    BY <2>2, <2>3, <2>4 DEF Atomic!Answer
  <2> QED
    BY <2>5 DEF Atomic!Next
<1> QED
  BY <1>2, <1>4, <1>5

\* A read that ends well answers faithfully.
LEMMA CheckRefines ==
  ASSUME Inv, NEW r \in Workers, CheckSeq(r)
  PROVE  [Atomic!Next]_Atomic!vars
<1> DEFINE k == rd[r]
           d == [rd[r] EXCEPT !.pc = "done"]
<1>1. k \in Reader /\ CopyInv(k, seq, target, Wiped) /\ k.pc = "copy" /\ k.todo = {}
  BY DEF Inv, TypeOK, CheckSeq
<1>2. CASE seq # k.s1
  <2>1. rd' = [rd EXCEPT ![r] = Retry(rd[r])]
    BY <1>2 DEF CheckSeq
  <2> QED
    BY <1>1, <2>1, RetryRefines DEF CheckSeq
<1>3. CASE seq = k.s1
  <2>1. rd' = [rd EXCEPT ![r] = d] /\ UNCHANGED <<owner, target>>
    BY <1>3 DEF CheckSeq
  <2>2. d.pc = "done" /\ d.scope = k.scope /\ d.snap = k.snap
    BY <1>1 DEF Reader
  <2>3. AnswerOf(k) = Atomic!Nothing
    BY <1>1, AnswerLemma
  <2> HIDE DEF d, k
  <2>4. AnswerOf(d) = [state |-> "done", scope |-> k.scope, read |-> k.snap]
    BY <2>2, AnswerLemma
  <2>5. /\ k.scope \in Scopes
        /\ \A w \in k.scope : k.snap[w] = target[w] \/ (Wiped /\ k.snap[w] = 0)
    BY <1>1, <1>3 DEF CopyInv
  <2>6. Atomic!Faithful(AnswerOf(d))
    BY <2>4, <2>5 DEF Atomic!Faithful, Wiped
  <2>7. Answers' = [Answers EXCEPT ![r] = AnswerOf(d)] /\ Answers[r] = Atomic!Nothing
    BY <2>1, <2>3, ReaderAnswer DEF k
  <2>8. Answers'[r] = AnswerOf(d)
    BY <2>7 DEF Answers
  <2>9. Atomic!Answer(r, Answers'[r])
    BY <2>1, <2>6, <2>7, <2>8 DEF Atomic!Answer
  <2> QED
    BY <2>9 DEF Atomic!Next
<1> QED
  BY <1>2, <1>3

\* Before its answer a reader is invisible, and after it it forgets.
LEMMA ReadRefines ==
  ASSUME Inv, NEW r \in Workers, ReadStep(r)
  PROVE  [Atomic!Next]_Atomic!vars
<1> DEFINE k == rd[r]
<1>1. k \in Reader
  BY DEF Inv, TypeOK
<1>2. CASE BeginRead(r)
  <2>1. PICK s \in Scopes : rd' = [rd EXCEPT ![r] = [Idle EXCEPT !.pc = "load", !.scope = s]]
    BY <1>2 DEF BeginRead
  <2>2. [Idle EXCEPT !.pc = "load", !.scope = s].pc = "load" /\ k.pc = "idle"
    BY <1>2 DEF BeginRead, Idle
  <2>3. AnswerOf([Idle EXCEPT !.pc = "load", !.scope = s]) = AnswerOf(k)
    BY <2>2, AnswerLemma
  <2> QED
    BY <1>2, <2>1, <2>3, ReaderAnswer DEF BeginRead
<1>3. CASE LoadSeq(r)
  <2> DEFINE d == [k EXCEPT !.pc = "copy", !.s1 = seq, !.todo = k.scope]
  <2>1. CASE rd' = [rd EXCEPT ![r] = Retry(rd[r])]
    BY <1>3, <2>1, RetryRefines DEF LoadSeq
  <2>2. CASE rd' = [rd EXCEPT ![r] = d]
    <3>1. d.pc = "copy" /\ k.pc = "load"
      BY <1>1, <1>3 DEF Reader, LoadSeq
    <3> HIDE DEF d
    <3>2. AnswerOf(d) = AnswerOf(k)
      BY <3>1, AnswerLemma
    <3> QED
      BY <1>3, <2>2, <3>2, ReaderAnswer DEF LoadSeq
  <2> QED
    BY <1>3, <2>1, <2>2 DEF LoadSeq
<1>4. CASE CopyWord(r)
  <2>1. PICK w \in k.todo : rd' = [rd EXCEPT ![r].snap[w] = page[w], ![r].todo = @ \ {w}]
    BY <1>4 DEF CopyWord
  <2> DEFINE d == [k EXCEPT !.snap[w] = page[w], !.todo = @ \ {w}]
  <2>2. rd' = [rd EXCEPT ![r] = d]
    BY <2>1 DEF Inv, TypeOK, Reader
  <2>3. d.pc = "copy" /\ k.pc = "copy"
    BY <1>1, <1>4 DEF CopyWord, Reader
  <2> HIDE DEF d
  <2>4. AnswerOf(d) = AnswerOf(k)
    BY <2>3, AnswerLemma
  <2> QED
    BY <1>4, <2>2, <2>4, ReaderAnswer DEF CopyWord
<1>5. CASE CheckSeq(r)
  BY <1>5, CheckRefines
<1>6. CASE EndRead(r)
  <2>1. rd' = [rd EXCEPT ![r] = Idle] /\ UNCHANGED <<owner, target>>
    BY <1>6 DEF EndRead
  <2>2. AnswerOf(Idle) = Atomic!Nothing
    BY AnswerLemma DEF Idle
  <2>3. Answers' = [Answers EXCEPT ![r] = Atomic!Nothing]
    BY <2>1, <2>2, ReaderAnswer
  <2>4. Atomic!Forget(r)
    BY <2>1, <2>3 DEF Atomic!Forget
  <2> QED
    BY <2>4 DEF Atomic!Next
<1> QED
  BY <1>2, <1>3, <1>4, <1>5, <1>6 DEF ReadStep

\* Every step of the ring is a step of AtomicRing or a stutter.
LEMMA StepRefines ==
  ASSUME Inv, [Next]_vars
  PROVE  [Atomic!Next]_Atomic!vars
<1>1. CASE BeginPublish
  <2>1. Answers' = Answers
    BY <1>1 DEF BeginPublish, Answers
  <2>2. Atomic!Publish(target')
    BY <1>1, <2>1 DEF BeginPublish, Atomic!Publish
  <2> QED
    BY <2>2 DEF Atomic!Next
<1>2. CASE ClearWord \/ StoreWord \/ EndPublish \/ WipeWord \/ OwnerKilled \/ UNCHANGED vars
  <2>1. rd' = rd /\ target' = target /\ Wiped' = Wiped
    BY <1>2 DEF ClearWord, StoreWord, EndPublish, WipeWord, OwnerKilled, vars, Wiped
  <2> QED
    BY <2>1, InvisibleStep
<1>3. CASE BeginWipe
  <2>1. Answers' = Answers
    BY <1>3 DEF BeginWipe, Answers
  <2>2. Atomic!Wipe
    BY <1>3, <2>1 DEF BeginWipe, Atomic!Wipe
  <2> QED
    BY <2>2 DEF Atomic!Next
<1>4. ASSUME NEW r \in Workers, ReadStep(r)
      PROVE  [Atomic!Next]_Atomic!vars
  BY <1>4, ReadRefines
<1> QED
  BY <1>1, <1>2, <1>3, <1>4 DEF Next

(***************************************************************************)
(* The sequence lock implements the atomic ring: whatever the order of the *)
(* stores and the loads, and wherever the owner dies, a read returns the   *)
(* keys of one instant or declines.                                        *)
(***************************************************************************)
THEOREM RingIsAtomic == Spec => ImplementsAtomicRing
<1>1. ASSUME Init PROVE Atomic!Init
  <2>1. AnswerOf(Idle) = Atomic!Nothing
    BY AnswerLemma DEF Idle
  <2>2. Answers = [r \in Workers |-> Atomic!Nothing]
    BY <1>1, <2>1, AnswersLemma DEF Init
  <2> QED
    BY <1>1, <2>2 DEF Init, Atomic!Init
<1>2. Inv /\ [Next]_vars => [Atomic!Next]_Atomic!vars
  BY StepRefines
<1> QED
  BY <1>1, <1>2, RingInvariant, PTL DEF Spec, ImplementsAtomicRing, Atomic!Spec

=============================================================================
