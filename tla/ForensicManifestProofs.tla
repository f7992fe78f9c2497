------------------------ MODULE ForensicManifestProofs ------------------------
(***************************************************************************)
(* Theorems about ForensicManifest, for any number of processes and        *)
(* records, any length of the retry queue and any number of faults.        *)
(*                                                                         *)
(* The chain of lines is whole as long as nobody got past the lock: who is *)
(* under the lock owns the file (OwnersHold), so that what a writer has    *)
(* read is still the end of the manifest when it writes                    *)
(* (WritersAreCurrent).                                                    *)
(*                                                                         *)
(* The account of records does not depend on the lock at all.  What the    *)
(* processes have to list lies in lists that share no record               *)
(* (ListsAreApart), what is still owed has no line yet (OwedIsNew), and a  *)
(* line that can still be spoilt is owed or given up (OpenIsOwed).         *)
(***************************************************************************)
EXTENDS ForensicManifest, TLAPS

Steps == {"idle", "insert", "want", "seen", "wait", "stale", "retake",
          "inside", "append", "release", "down"}
JobType == [step : Steps, early : BOOLEAN, written : BOOLEAN]

\* The records of some lines, whether these form one chain, and whether no record but
\* those of `again` is in two; the records of a queue, and whether none is in two batches.
Batches(s) == UNION {Last(s[i]) : i \in DOMAIN s}
Follows(s) == \A i \in DOMAIN s : Front(s[i]) = IF i = 1 THEN << >> ELSE s[i - 1]
Once(s, again) == \A i, j \in DOMAIN s : i # j => Last(s[i]) \cap Last(s[j]) \subseteq again
Union(queue) == UNION Range(queue)
NoneTwice(queue) == \A i, j \in DOMAIN queue : i # j => queue[i] \cap queue[j] = {}

\* A process takes itself for the holder of the lock.
Under(p) == At(p, "inside") \/ At(p, "append") \/ At(p, "release")

\* What a process has still to write.
Owed(p) == IF job[p].written THEN ToList(p) \ Writing(p) ELSE ToList(p)

-----------------------------------------------------------------------------
(* The invariants *)

Types ==
    /\ captured \subseteq Records /\ db \subseteq captured /\ wal \subseteq captured
    /\ buffer \in [Procs -> SUBSET Records] /\ batch \in [Procs -> SUBSET Records]
    /\ \A p \in Procs : buffer[p] \subseteq captured /\ batch[p] \subseteq captured
    /\ job \in [Procs -> JobType]
    /\ pending \in [Procs -> Seq(SUBSET Records)]
    /\ \A p \in Procs : Len(pending[p]) <= MaxPending /\ (job[p].early => pending[p] # << >>)
    /\ prev \in [Procs -> Hashes] /\ lines \in Seq(Hashes)
    /\ tail \in {"whole", "open", "cut", "junk"}
    /\ lock \in [owner : Procs \cup {Dead}, old : BOOLEAN] \cup {None}
    /\ breach \subseteq {"vanished", "removed"} /\ faults \in 0..MaxFaults

\* As long as nobody got past the lock, its file is that of whoever is under it,
OwnersHold == breach = {} => \A p \in Procs : Under(p) => lock # None /\ lock.owner = p

\* and what a writer is about to follow is the last line.
WritersAreCurrent ==
    breach = {} => \A p \in Procs : At(p, "append") =>
        prev[p] = LastHash(p) /\ tail \in {"whole", "open"}

ChainInv == OwnersHold /\ WritersAreCurrent /\ ForksNeedABreach

\* What a process has to list is stored,
ListsAreStored == \A p \in Procs : ToList(p) \subseteq db

\* and no record is in two batches that are to be listed.
ListsAreApart ==
    /\ \A p \in Procs : NoneTwice(pending[p]) /\ (Lists(p) => batch[p] \cap Queued(p) = {})
    /\ \A p, q \in Procs : p # q => ToList(p) \cap ToList(q) = {}

\* A batch that counts as written has its line, if that has not been spoilt since.
WrittenIsListed ==
    \A p \in Procs : job[p].written =>
        At(p, "release") /\ Writing(p) \subseteq unlisted \cup Listed

\* The line that is to be spoilt next is owed or given up.
OpenIsOwed ==
    tail = "open" => /\ lines # << >>
                     /\ Last(Last(lines)) \subseteq unlisted \cup UNION {Owed(p) : p \in Procs}

\* What is owed has no line, but one whose writing was reported to have failed.
OwedIsNew == \A p \in Procs : Owed(p) \cap Listed \subseteq relisted

ListedIsStored == Listed \subseteq db

Account ==
    /\ ListsAreStored /\ ListsAreApart /\ WrittenIsListed /\ OpenIsOwed /\ OwedIsNew
    /\ ListedIsStored /\ StoredIsListed /\ ListedOnce

ManifestInv == Types /\ ChainInv /\ Account

-----------------------------------------------------------------------------
(* Sequences: the lines and the retry queue *)

\* A line added brings its batch,
LEMMA AppendBatches ==
    ASSUME NEW s \in Seq(Hashes), NEW h \in Hashes, NEW W \in SUBSET Records
    PROVE  /\ Append(h, W) \in Hashes
           /\ Batches(Append(s, Append(h, W))) = Batches(s) \cup W
           /\ Append(s, Append(h, W)) # << >>
           /\ Last(Last(Append(s, Append(h, W)))) = W
<1> DEFINE l == Append(h, W)
           t == Append(s, l)
<1>1. l \in Hashes /\ Len(l) = Len(h) + 1 /\ l[Len(h) + 1] = W
  BY DEF Hashes
<1>2. Last(l) = W
  BY <1>1 DEF Last
<1> HIDE DEF l
<1>3. /\ t \in Seq(Hashes) /\ Len(t) = Len(s) + 1 /\ t[Len(s) + 1] = l
      /\ \A i \in 1..Len(s) : t[i] = s[i]
  BY <1>1
<1>4. DOMAIN s = 1..Len(s) /\ DOMAIN t = 1..(Len(s) + 1) /\ Len(s) \in Nat
  BY <1>3
<1>5. Last(t) = l
  BY <1>3 DEF Last
<1> HIDE DEF t
<1>6. Batches(t) \subseteq Batches(s) \cup W
  BY <1>2, <1>3, <1>4 DEF Batches
<1>7. Batches(s) \subseteq Batches(t)
  BY <1>3, <1>4 DEF Batches
<1>8. W \subseteq Batches(t)
  BY <1>2, <1>3, <1>4 DEF Batches
<1>9. t # << >>
  BY <1>3, <1>4
<1> QED
  BY <1>1, <1>2, <1>5, <1>6, <1>7, <1>8, <1>9 DEF l, t

\* and none of its records is listed for the second time if none was listed.
LEMMA AppendOnce ==
    ASSUME NEW s \in Seq(Hashes), NEW h \in Hashes, NEW W \in SUBSET Records, NEW again,
           Once(s, again), W \cap Batches(s) \subseteq again
    PROVE  Once(Append(s, Append(h, W)), again)
<1> DEFINE l == Append(h, W)
           t == Append(s, l)
<1>1. l \in Hashes /\ Len(l) = Len(h) + 1 /\ l[Len(h) + 1] = W
  BY DEF Hashes
<1>2. Last(l) = W
  BY <1>1 DEF Last
<1> HIDE DEF l
<1>3. /\ t \in Seq(Hashes) /\ Len(t) = Len(s) + 1 /\ t[Len(s) + 1] = l
      /\ \A i \in 1..Len(s) : t[i] = s[i]
  BY <1>1
<1>4. DOMAIN s = 1..Len(s) /\ DOMAIN t = 1..(Len(s) + 1) /\ Len(s) \in Nat
  BY <1>3
<1> HIDE DEF t
<1>5. \A i \in DOMAIN s : W \cap Last(s[i]) \subseteq again
  BY DEF Batches
<1>6. ASSUME NEW i \in DOMAIN t, NEW j \in DOMAIN t, i # j
      PROVE  Last(t[i]) \cap Last(t[j]) \subseteq again
  <2>1. CASE i \in DOMAIN s /\ j \in DOMAIN s
    BY <1>3, <1>4, <1>6, <2>1 DEF Once
  <2>2. CASE i = Len(s) + 1
    <3>1. j \in DOMAIN s /\ t[j] = s[j] /\ Last(t[i]) = W
      BY <1>2, <1>3, <1>4, <1>6, <2>2
    <3> QED
      BY <1>5, <3>1
  <2>3. CASE j = Len(s) + 1
    <3>1. i \in DOMAIN s /\ t[i] = s[i] /\ Last(t[j]) = W
      BY <1>2, <1>3, <1>4, <1>6, <2>3
    <3> QED
      BY <1>5, <3>1
  <2> QED
    BY <1>4, <2>1, <2>2, <2>3
<1> QED
  BY <1>6 DEF Once, l, t

\* A line that follows the last one leaves the chain whole.
LEMMA AppendFollows ==
    ASSUME NEW s \in Seq(Hashes), NEW h \in Hashes, NEW W \in SUBSET Records,
           Follows(s), h = IF s = << >> THEN << >> ELSE Last(s)
    PROVE  Follows(Append(s, Append(h, W)))
<1> DEFINE l == Append(h, W)
           t == Append(s, l)
<1>1. l \in Hashes /\ Front(l) = h
  BY DEF Hashes, Front
<1> HIDE DEF l
<1>3. /\ t \in Seq(Hashes) /\ Len(t) = Len(s) + 1 /\ t[Len(s) + 1] = l
      /\ \A i \in 1..Len(s) : t[i] = s[i]
  BY <1>1
<1>4. DOMAIN s = 1..Len(s) /\ DOMAIN t = 1..(Len(s) + 1) /\ Len(s) \in Nat
  BY <1>3
<1> HIDE DEF t
<1>5. ASSUME NEW i \in DOMAIN t PROVE Front(t[i]) = IF i = 1 THEN << >> ELSE t[i - 1]
  <2>1. CASE i \in DOMAIN s
    <3>1. t[i] = s[i] /\ (i # 1 => t[i - 1] = s[i - 1])
      BY <1>3, <1>4, <2>1
    <3> QED
      BY <2>1, <3>1 DEF Follows
  <2>2. CASE i = Len(s) + 1 /\ s = << >>
    BY <1>1, <1>3, <2>2
  <2>3. CASE i = Len(s) + 1 /\ s # << >>
    <3>1. Len(s) # 0
      BY <2>3
    <3>2. i # 1 /\ t[i - 1] = s[Len(s)] /\ t[i] = l
      BY <1>3, <1>4, <2>3, <3>1
    <3> QED
      BY <1>1, <2>3, <3>2 DEF Last
  <2> QED
    BY <1>4, <2>1, <2>2, <2>3
<1> QED
  BY <1>5 DEF Follows, l, t

\* Without the last line the others are as they were.
LEMMA FrontLines ==
    ASSUME NEW s \in Seq(Hashes), s # << >>
    PROVE  /\ Front(s) \in Seq(Hashes)
           /\ Batches(Front(s)) \subseteq Batches(s)
           /\ Batches(s) \subseteq Batches(Front(s)) \cup Last(Last(s))
           /\ \A again : Once(s, again) => Once(Front(s), again)
           /\ Follows(s) => Follows(Front(s))
<1> DEFINE t == Front(s)
<1>1. Len(s) \in Nat \ {0} /\ DOMAIN s = 1..Len(s)
  OBVIOUS
<1>2. /\ t \in Seq(Hashes) /\ Len(t) = Len(s) - 1 /\ \A i \in 1..(Len(s) - 1) : t[i] = s[i]
  BY <1>1 DEF Front
<1>3. DOMAIN t = 1..(Len(s) - 1)
  BY <1>1, <1>2
<1> HIDE DEF t
<1>4. Batches(t) \subseteq Batches(s)
  BY <1>1, <1>2, <1>3 DEF Batches
<1>5. \A i \in DOMAIN s : i = Len(s) \/ i \in DOMAIN t
  BY <1>1, <1>3
<1>6. Batches(s) \subseteq Batches(t) \cup Last(Last(s))
  BY <1>2, <1>3, <1>5 DEF Batches, Last
<1>7. \A again : Once(s, again) => Once(t, again)
  BY <1>1, <1>2, <1>3 DEF Once
<1>8. Follows(s) => Follows(t)
  BY <1>1, <1>2, <1>3 DEF Follows
<1> QED
  BY <1>2, <1>4, <1>6, <1>7, <1>8 DEF t

\* drain takes the first batch, and with it just the records of that batch.
LEMMA TailQueue ==
    ASSUME NEW queue \in Seq(SUBSET Records), queue # << >>
    PROVE  /\ Tail(queue) \in Seq(SUBSET Records) /\ Len(Tail(queue)) = Len(queue) - 1
           /\ Head(queue) \in SUBSET Records /\ Head(queue) \subseteq UNION Range(queue)
           /\ UNION Range(Tail(queue)) \subseteq UNION Range(queue)
           /\ UNION Range(queue) \subseteq (UNION Range(Tail(queue))) \cup Head(queue)
           /\ NoneTwice(queue) => /\ NoneTwice(Tail(queue))
                                  /\ Head(queue) \cap UNION Range(Tail(queue)) = {}
<1> DEFINE t == Tail(queue)
<1>1. /\ Len(queue) \in Nat \ {0} /\ DOMAIN queue = 1..Len(queue)
      /\ Head(queue) = queue[1] /\ Head(queue) \in SUBSET Records
  OBVIOUS
<1>2. /\ t \in Seq(SUBSET Records) /\ Len(t) = Len(queue) - 1
      /\ \A i \in 1..(Len(queue) - 1) : t[i] = queue[i + 1]
  BY <1>1
<1>3. DOMAIN t = 1..(Len(queue) - 1)
  BY <1>1, <1>2
<1> HIDE DEF t
<1>4. Head(queue) \in Range(queue)
  BY <1>1 DEF Range
<1>5. \A i \in DOMAIN t : i + 1 \in DOMAIN queue /\ i + 1 # 1 /\ t[i] = queue[i + 1]
  BY <1>1, <1>2, <1>3
<1>6. \A i \in DOMAIN queue : i = 1 \/ (i - 1 \in DOMAIN t /\ t[i - 1] = queue[i])
  BY <1>1, <1>2, <1>3
<1>7. Range(t) \subseteq Range(queue)
  BY <1>5 DEF Range
<1>8. Range(queue) \subseteq Range(t) \cup {Head(queue)}
  BY <1>1, <1>6 DEF Range
<1>9. ASSUME NoneTwice(queue)
      PROVE  NoneTwice(t) /\ Head(queue) \cap UNION Range(t) = {}
  <2>1. \A i \in DOMAIN t : Head(queue) \cap t[i] = {}
    BY <1>1, <1>5, <1>9 DEF NoneTwice
  <2>2. Head(queue) \cap UNION Range(t) = {}
    BY <2>1 DEF Range
  <2>3. ASSUME NEW i \in DOMAIN t, NEW j \in DOMAIN t, i # j PROVE t[i] \cap t[j] = {}
    <3>1. i + 1 # j + 1
      BY <1>3, <2>3
    <3> QED
      BY <1>5, <1>9, <3>1 DEF NoneTwice
  <2> QED
    BY <2>2, <2>3 DEF NoneTwice
<1> QED
  BY <1>1, <1>2, <1>4, <1>7, <1>8, <1>9 DEF t

\* A batch goes to the end of the queue,
LEMMA AppendQueue ==
    ASSUME NEW queue \in Seq(SUBSET Records), NEW b \in SUBSET Records
    PROVE  /\ Append(queue, b) \in Seq(SUBSET Records)
           /\ Len(Append(queue, b)) = Len(queue) + 1
           /\ UNION Range(Append(queue, b)) = (UNION Range(queue)) \cup b
           /\ NoneTwice(queue) /\ b \cap UNION Range(queue) = {} => NoneTwice(Append(queue, b))
<1> DEFINE t == Append(queue, b)
<1>1. /\ t \in Seq(SUBSET Records) /\ Len(t) = Len(queue) + 1 /\ t[Len(queue) + 1] = b
      /\ \A i \in 1..Len(queue) : t[i] = queue[i]
  OBVIOUS
<1>2. /\ DOMAIN queue = 1..Len(queue) /\ DOMAIN t = 1..(Len(queue) + 1)
      /\ Len(queue) \in Nat
  BY <1>1
<1> HIDE DEF t
<1>3. \A i \in DOMAIN t : i = Len(queue) + 1 \/ (i \in DOMAIN queue /\ t[i] = queue[i])
  BY <1>1, <1>2
<1>4. Range(t) = Range(queue) \cup {b}
  <2>1. Range(t) \subseteq Range(queue) \cup {b}
    BY <1>1, <1>3 DEF Range
  <2>2. b \in Range(t)
    BY <1>1, <1>2 DEF Range
  <2>3. \A i \in DOMAIN queue : i \in DOMAIN t /\ t[i] = queue[i]
    BY <1>1, <1>2
  <2>4. Range(queue) \subseteq Range(t)
    BY <2>3 DEF Range
  <2> QED
    BY <2>1, <2>2, <2>4
<1>5. ASSUME NoneTwice(queue), b \cap UNION Range(queue) = {} PROVE NoneTwice(t)
  <2>1. \A i \in DOMAIN queue : b \cap queue[i] = {}
    BY <1>5 DEF Range
  <2> QED
    BY <1>1, <1>3, <1>5, <2>1 DEF NoneTwice
<1> QED
  BY <1>1, <1>4, <1>5 DEF t

\* and for it the first one goes if the queue is full.
LEMMA EnqueuedQueue ==
    ASSUME NEW queue \in Seq(SUBSET Records), NEW b \in SUBSET Records,
           Len(queue) <= MaxPending
    PROVE  /\ Enqueued(queue, b) \in Seq(SUBSET Records) /\ Len(Enqueued(queue, b)) <= MaxPending
           /\ Union(Enqueued(queue, b)) \subseteq Union(queue) \cup b
           /\ Len(queue) >= MaxPending =>
                  Union(queue) \cup b \subseteq Union(Enqueued(queue, b)) \cup Head(queue)
           /\ Len(queue) < MaxPending =>
                  Union(queue) \cup b \subseteq Union(Enqueued(queue, b))
           /\ NoneTwice(queue) /\ b \cap Union(queue) = {} => NoneTwice(Enqueued(queue, b))
<1> DEFINE kept == IF Len(queue) >= MaxPending THEN Tail(queue) ELSE queue
<1>0. Len(queue) \in Nat /\ MaxPending \in Nat \ {0}
  BY ManifestAssumption
<1>1. /\ kept \in Seq(SUBSET Records) /\ Len(kept) < MaxPending
      /\ Union(kept) \subseteq Union(queue)
      /\ Len(queue) >= MaxPending => Union(queue) \subseteq Union(kept) \cup Head(queue)
      /\ Len(queue) < MaxPending => Union(queue) \subseteq Union(kept)
      /\ NoneTwice(queue) => NoneTwice(kept)
  <2>1. CASE Len(queue) >= MaxPending
    <3>1. queue # << >>
      BY <1>0, <2>1
    <3>2. Len(queue) - 1 < MaxPending /\ ~(Len(queue) < MaxPending) /\ kept = Tail(queue)
      BY <1>0, <2>1
    <3>3. /\ Tail(queue) \in Seq(SUBSET Records) /\ Len(Tail(queue)) = Len(queue) - 1
          /\ Union(Tail(queue)) \subseteq Union(queue)
          /\ Union(queue) \subseteq Union(Tail(queue)) \cup Head(queue)
          /\ NoneTwice(queue) => NoneTwice(Tail(queue))
      BY <3>1, TailQueue DEF Union
    <3> HIDE DEF kept
    <3> QED
      BY <3>2, <3>3
  <2>2. CASE ~(Len(queue) >= MaxPending)
    BY <1>0, <2>2
  <2> QED
    BY <2>1, <2>2
<1>2. Enqueued(queue, b) = Append(kept, b)
  BY DEF Enqueued
<1> HIDE DEF kept
<1>3. /\ Append(kept, b) \in Seq(SUBSET Records) /\ Len(Append(kept, b)) = Len(kept) + 1
      /\ Union(Append(kept, b)) = Union(kept) \cup b
      /\ NoneTwice(kept) /\ b \cap Union(kept) = {} => NoneTwice(Append(kept, b))
  BY <1>1, AppendQueue DEF Union
<1>4. Len(kept) \in Nat
  BY <1>1
<1>5. Len(Append(kept, b)) <= MaxPending /\ Append(kept, b) # << >>
  <2>1. \A n, m \in Nat : n < m => n + 1 <= m /\ n + 1 # 0
    OBVIOUS
  <2>2. Len(Append(kept, b)) # 0 /\ Len(Append(kept, b)) <= MaxPending
    BY <1>0, <1>1, <1>3, <1>4, <2>1
  <2>3. Append(kept, b) # << >>
    BY <2>2
  <2> QED
    BY <2>2, <2>3
<1>6. /\ Union(Append(kept, b)) \subseteq Union(queue) \cup b
      /\ Len(queue) >= MaxPending =>
            Union(queue) \cup b \subseteq Union(Append(kept, b)) \cup Head(queue)
      /\ Len(queue) < MaxPending => Union(queue) \cup b \subseteq Union(Append(kept, b))
  BY <1>1, <1>3
<1>7. ASSUME NoneTwice(queue), b \cap Union(queue) = {} PROVE NoneTwice(Append(kept, b))
  BY <1>1, <1>3, <1>7
<1> QED
  BY <1>2, <1>3, <1>5, <1>6, <1>7

-----------------------------------------------------------------------------
(* Types *)

\* The batch that is being written is a batch.
LEMMA WritingTyped == Types => \A p \in Procs : Writing(p) \in SUBSET Records
<1> SUFFICES ASSUME Types, NEW p \in Procs PROVE Writing(p) \in SUBSET Records
  OBVIOUS
<1>1. job[p].early => Head(pending[p]) \in SUBSET Records
  BY TailQueue DEF Types
<1>2. batch[p] \in SUBSET Records
  BY DEF Types
<1> QED
  BY <1>1, <1>2 DEF Writing

\* What comes of a write is lines of a manifest.
LEMMA FileTyped ==
    ASSUME Types, NEW p \in Procs, NEW end \in {"none", "cut", "open", "whole"}, FileWith(p, end)
    PROVE  lines' \in Seq(Hashes) /\ tail' \in {"whole", "open", "cut", "junk"}
<1>1. Line(p) \in Hashes
  BY WritingTyped, AppendBatches DEF Line, Types
<1>2. lines \in Seq(Hashes) /\ tail \in {"whole", "open", "cut", "junk"}
  BY DEF Types
<1>3. CASE end = "none"
  BY <1>2, <1>3 DEF FileWith
<1>4. CASE end # "none" /\ tail \in {"whole", "junk"}
  <2>1. tail' = end /\ lines' \in {lines, Append(lines, Line(p))}
    BY <1>4 DEF FileWith
  <2> QED
    BY <1>1, <1>2, <1>4, <2>1
<1>5. CASE end # "none" /\ tail \in {"open", "cut"}
  <2>1. /\ tail' \in {"junk", "cut"} /\ lines' = IF tail = "open" THEN Front(lines) ELSE lines
    BY <1>5 DEF FileWith
  <2>2. CASE lines = << >>
    <3>1. Front(lines) = << >>
      BY <2>2 DEF Front
    <3> QED
      BY <1>2, <2>1, <2>2, <3>1
  <2>3. CASE lines # << >>
    BY <1>2, <2>1, <2>3, FrontLines
  <2> QED
    BY <2>2, <2>3
<1> QED
  BY <1>2, <1>3, <1>4, <1>5

\* The end of writing a batch leaves queue and job well formed.
LEMMA ConcludesTyped ==
    ASSUME Types, NEW p \in Procs, NEW written \in BOOLEAN, Concludes(p, written)
    PROVE  /\ batch' \in [Procs -> SUBSET Records] /\ job' \in [Procs -> JobType]
           /\ pending' \in [Procs -> Seq(SUBSET Records)]
           /\ \A q \in Procs : /\ batch'[q] \subseteq captured
                               /\ Len(pending'[q]) <= MaxPending
                               /\ job'[q].early => pending'[q] # << >>
<1>0. /\ pending \in [Procs -> Seq(SUBSET Records)] /\ batch \in [Procs -> SUBSET Records]
      /\ job \in [Procs -> JobType] /\ MaxPending \in Nat
      /\ \A q \in Procs : Len(pending[q]) <= MaxPending /\ (job[q].early => pending[q] # << >>)
      /\ \A q \in Procs : batch[q] \subseteq captured
  BY ManifestAssumption DEF Types
<1>1. CASE job[p].early
  <2>1. /\ pending' = [pending EXCEPT ![p] = Drained(pending[p], written)]
        /\ job' = [job EXCEPT ![p] = [step |-> "want", written |-> FALSE,
                                       early |-> written /\ pending'[p] # << >>]]
        /\ batch' = batch
    BY <1>1 DEF Concludes
  <2>2. Drained(pending[p], written) \in Seq(SUBSET Records)
        /\ Len(Drained(pending[p], written)) <= MaxPending
    <3>1. pending[p] # << >> /\ pending[p] \in Seq(SUBSET Records)
      BY <1>0, <1>1
    <3>2. Tail(pending[p]) \in Seq(SUBSET Records) /\ Len(Tail(pending[p])) = Len(pending[p]) - 1
      BY <3>1, TailQueue
    <3>3. Len(pending[p]) \in Nat
      BY <3>1
    <3> QED
      BY <1>0, <3>1, <3>2, <3>3 DEF Drained
  <2>3. [step |-> "want", written |-> FALSE, early |-> written /\ pending'[p] # << >>] \in JobType
    BY DEF JobType, Steps
  <2> QED
    BY <1>0, <2>1, <2>2, <2>3
<1>2. CASE ~job[p].early
  <2>1. /\ batch' = [batch EXCEPT ![p] = {}] /\ job' = [job EXCEPT ![p] = Idle]
        /\ \/ pending' = pending
           \/ pending' = [pending EXCEPT ![p] = Enqueued(pending[p], batch[p])]
    BY <1>2 DEF Concludes
  <2>2. Idle \in JobType /\ Idle.early = FALSE
    BY DEF Idle, JobType, Steps
  <2>3. /\ Enqueued(pending[p], batch[p]) \in Seq(SUBSET Records)
        /\ Len(Enqueued(pending[p], batch[p])) <= MaxPending
    BY <1>0, EnqueuedQueue
  <2> QED
    BY <1>0, <2>1, <2>2, <2>3
<1> QED
  BY <1>1, <1>2

LEMMA InitTypes == Init => Types
<1> SUFFICES ASSUME Init PROVE Types
  OBVIOUS
<1>1. Idle \in JobType /\ Idle.early = FALSE
  BY DEF Idle, JobType, Steps
<1>2. Len(<< >>) = 0 /\ << >> \in Seq(SUBSET Records) /\ << >> \in Seq(Hashes) /\ << >> \in Hashes
  BY DEF Hashes
<1>3. MaxPending \in Nat /\ MaxFaults \in Nat
  BY ManifestAssumption
<1> QED
  BY <1>1, <1>2, <1>3 DEF Init, Types

\* Goes changes the step only.
LEMMA GoesTyped ==
    ASSUME NEW p \in Procs, NEW step \in Steps, job \in [Procs -> JobType], Goes(p, step)
    PROVE  /\ job' \in [Procs -> JobType] /\ job'[p].step = step
           /\ \A q \in Procs : /\ job'[q].early = job[q].early
                               /\ job'[q].written = job[q].written
           /\ \A q \in Procs \ {p} : job'[q] = job[q]
  BY DEF Goes, JobType

LEMMA FaultTyped ==
    faults \in 0..MaxFaults /\ (Fault \/ UNCHANGED faults) => faults' \in 0..MaxFaults
  BY ManifestAssumption DEF Fault

LEMMA TypesStay == Types /\ [Next]_vars => Types'
<1> SUFFICES ASSUME Types, [Next]_vars PROVE Types'
  OBVIOUS
<1> USE DEF Types
<1>1. CASE UNCHANGED vars
  BY <1>1 DEF vars, memory, files, history
<1>2. CASE Ages
  <2>1. lock' \in [owner : Procs \cup {Dead}, old : BOOLEAN] \cup {None}
    BY <1>2 DEF Ages
  <2>2. faults' \in 0..MaxFaults
    BY <1>2, FaultTyped DEF Ages
  <2> QED
    BY <1>2, <2>1, <2>2 DEF Ages, memory, history
<1>3. ASSUME NEW p \in Procs, Record(p) PROVE Types'
  <2>1. PICK r \in Records \ captured :
          /\ captured' = captured \cup {r}
          /\ buffer' = [buffer EXCEPT ![p] = @ \cup {r}]
          /\ wal' \in {wal, wal \cup {r}} /\ (Fault \/ UNCHANGED faults)
    BY <1>3 DEF Record
  <2>2. UNCHANGED <<batch, job, pending, prev, lock, lines, tail, db, unlisted, relisted, breach>>
    BY <1>3 DEF Record, history
  <2>3. faults' \in 0..MaxFaults
    BY <2>1, FaultTyped
  <2>4. buffer' \in [Procs -> SUBSET Records] /\ \A q \in Procs : buffer'[q] \subseteq captured'
    BY <2>1
  <2> QED
    BY <2>1, <2>2, <2>3, <2>4
<1>4. ASSUME NEW p \in Procs, FlushBegins(p) PROVE Types'
  <2>1. Goes(p, "insert") /\ "insert" \in Steps
    BY <1>4 DEF FlushBegins, Steps
  <2>2. job' \in [Procs -> JobType] /\ \A q \in Procs : job'[q].early = job[q].early
    BY <2>1, GoesTyped
  <2> QED
    BY <1>4, <2>2 DEF FlushBegins, files, history
<1>5. ASSUME NEW p \in Procs, Stored(p) PROVE Types'
  <2>1. /\ job' = [job EXCEPT ![p] = [step |-> "want", early |-> pending[p] # << >>,
                                      written |-> FALSE]]
        /\ db' = db \cup batch[p] /\ wal' \in {wal, wal \ batch[p]}
        /\ (Fault \/ UNCHANGED faults)
        /\ UNCHANGED <<captured, buffer, batch, pending, prev, lock, lines, tail, breach>>
    BY <1>5 DEF Stored, Listing, history
  <2>2. [step |-> "want", early |-> pending[p] # << >>, written |-> FALSE] \in JobType
    BY DEF JobType, Steps
  <2>3. faults' \in 0..MaxFaults
    BY <2>1, FaultTyped
  <2> QED
    BY <2>1, <2>2, <2>3
<1>6. ASSUME NEW p \in Procs, InsertFails(p) PROVE Types'
  <2>1. PICK landed \in SUBSET (batch[p] \ db), failing \in BOOLEAN :
          /\ (Fault \/ UNCHANGED faults)
          /\ db' = db \cup landed
          /\ buffer' = [buffer EXCEPT ![p] =
                            @ \cup IF failing THEN batch[p] ELSE NotYetStored(p, db')]
    BY <1>6 DEF InsertFails
  <2>2. /\ batch' = [batch EXCEPT ![p] = {}] /\ job' = [job EXCEPT ![p] = Idle]
        /\ UNCHANGED <<captured, pending, prev, lock, lines, tail, wal, breach>>
    BY <1>6 DEF InsertFails, files
  <2>3. Idle \in JobType /\ Idle.early = FALSE
    BY DEF Idle, JobType, Steps
  <2>4. faults' \in 0..MaxFaults
    BY <2>1, FaultTyped
  <2>5. buffer' \in [Procs -> SUBSET Records] /\ \A q \in Procs : buffer'[q] \subseteq captured
    BY <2>1 DEF NotYetStored
  <2> QED
    BY <2>1, <2>2, <2>3, <2>4, <2>5
<1>7. ASSUME NEW p \in Procs, TryCreate(p) PROVE Types'
  <2>1. \E step \in Steps : Goes(p, step)
    <3>1. \/ Goes(p, "inside")
          \/ Goes(p, IF At(p, "want") THEN "seen" ELSE "wait")
      BY <1>7 DEF TryCreate
    <3> QED
      BY <3>1 DEF Steps
  <2>2. job' \in [Procs -> JobType] /\ \A q \in Procs : job'[q].early = job[q].early
    BY <2>1, GoesTyped
  <2>3. lock' \in {lock, [owner |-> p, old |-> FALSE]}
    BY <1>7 DEF TryCreate
  <2>4. lock' \in [owner : Procs \cup {Dead}, old : BOOLEAN] \cup {None}
    <3>1. [owner |-> p, old |-> FALSE] \in [owner : Procs \cup {Dead}, old : BOOLEAN]
      OBVIOUS
    <3>2. lock \in [owner : Procs \cup {Dead}, old : BOOLEAN] \cup {None}
      OBVIOUS
    <3> QED
      BY <2>3, <3>1, <3>2
  <2> QED
    BY <1>7, <2>2, <2>4 DEF TryCreate, history
<1>8. ASSUME NEW p \in Procs, Stat(p) PROVE Types'
  <2>1. \E step \in Steps : Goes(p, step)
    BY <1>8 DEF Stat, Steps
  <2>2. job' \in [Procs -> JobType] /\ \A q \in Procs : job'[q].early = job[q].early
    BY <2>1, GoesTyped
  <2> QED
    BY <1>8, <2>2 DEF Stat, files
<1>9. ASSUME NEW p \in Procs, TakeOver(p) PROVE Types'
  <2>1. Goes(p, "retake") /\ "retake" \in Steps
    BY <1>9 DEF TakeOver, Steps
  <2>2. job' \in [Procs -> JobType] /\ \A q \in Procs : job'[q].early = job[q].early
    BY <2>1, GoesTyped
  <2> QED
    BY <1>9, <2>2 DEF TakeOver
<1>10. ASSUME NEW p \in Procs, Wait(p) PROVE Types'
  <2>0. UNCHANGED <<captured, buffer, prev, files, db, relisted, breach, faults>>
    BY <1>10 DEF Wait
  <2>1. CASE Goes(p, "want") /\ UNCHANGED <<batch, pending, unlisted>>
    <3>1. job' \in [Procs -> JobType] /\ \A q \in Procs : job'[q].early = job[q].early
      BY <2>1, GoesTyped DEF Steps
    <3> QED
      BY <2>0, <2>1, <3>1 DEF files
  <2>2. CASE Concludes(p, FALSE)
    BY <2>0, <2>2, ConcludesTyped DEF files
  <2> QED
    BY <1>10, <2>1, <2>2 DEF Wait
<1>11. ASSUME NEW p \in Procs, ReadLast(p) PROVE Types'
  <2>1. \E step \in Steps : Goes(p, step)
    BY <1>11 DEF ReadLast, Steps
  <2>2. job' \in [Procs -> JobType] /\ \A q \in Procs : job'[q].early = job[q].early
    BY <2>1, GoesTyped
  <2>3. LastHash(p) \in Hashes
    <3>1. lines # << >> => Last(lines) \in Hashes
      BY DEF Last
    <3> QED
      BY <3>1 DEF LastHash, Hashes
  <2>4. prev' \in [Procs -> Hashes]
    BY <1>11, <2>3 DEF ReadLast
  <2> QED
    BY <1>11, <2>2, <2>4 DEF ReadLast, files, history
<1>12. ASSUME NEW p \in Procs, Appended(p) PROVE Types'
  <2>1. job' \in [Procs -> JobType] /\ \A q \in Procs : job'[q].early = job[q].early
    <3>1. /\ job' = [job EXCEPT ![p].step = "release", ![p].written = TRUE]
          /\ job \in [Procs -> JobType]
      BY <1>12 DEF Appended
    <3>2. \A j \in JobType : /\ [j EXCEPT !.step = "release", !.written = TRUE] \in JobType
                              /\ [j EXCEPT !.step = "release", !.written = TRUE].early = j.early
      BY DEF JobType, Steps
    <3> HIDE DEF JobType, Types
    <3>3. PICK j \in JobType :
            j = [job[p] EXCEPT !.step = "release", !.written = TRUE] /\ j.early = job[p].early
      BY <3>1, <3>2
    <3>4. job' = [job EXCEPT ![p] = j]
      BY <3>1, <3>3
    <3> QED
      BY <3>1, <3>3, <3>4
  <2>2. lines' \in Seq(Hashes) /\ tail' \in {"whole", "open", "cut", "junk"}
    BY <1>12, FileTyped DEF Appended
  <2> QED
    BY <1>12, <2>1, <2>2 DEF Appended
<1>13. ASSUME NEW p \in Procs, AppendFails(p) PROVE Types'
  <2>1. job' \in [Procs -> JobType] /\ \A q \in Procs : job'[q].early = job[q].early
    BY <1>13, GoesTyped DEF AppendFails, Steps
  <2>2. lines' \in Seq(Hashes) /\ tail' \in {"whole", "open", "cut", "junk"}
    BY <1>13, FileTyped DEF AppendFails
  <2>3. faults' \in 0..MaxFaults
    BY <1>13, FaultTyped DEF AppendFails
  <2> QED
    BY <1>13, <2>1, <2>2, <2>3 DEF AppendFails
<1>14. ASSUME NEW p \in Procs, Release(p) PROVE Types'
  <2>1. job[p].written \in BOOLEAN
    BY DEF JobType
  <2>2. lock' \in [owner : Procs \cup {Dead}, old : BOOLEAN] \cup {None}
    BY <1>14 DEF Release
  <2>3. faults' \in 0..MaxFaults
    BY <1>14, FaultTyped DEF Release
  <2>4. Concludes(p, job[p].written)
        /\ UNCHANGED <<captured, buffer, prev, lines, tail, wal, db, relisted, breach>>
    BY <1>14 DEF Release
  <2> QED
    BY <2>1, <2>2, <2>3, <2>4, ConcludesTyped
<1>15. ASSUME NEW p \in Procs, Crash(p) PROVE Types'
  <2>1. PICK landed \in SUBSET IF At(p, "insert") THEN batch[p] \ db ELSE {} : db' = db \cup landed
    BY <1>15 DEF Crash
  <2>2. lines' \in Seq(Hashes) /\ tail' \in {"whole", "open", "cut", "junk"}
    BY <1>15, FileTyped DEF Crash
  <2>3. lock' \in [owner : Procs \cup {Dead}, old : BOOLEAN] \cup {None}
    BY <1>15 DEF Crash
  <2>4. faults' \in 0..MaxFaults
    BY <1>15, FaultTyped DEF Crash
  <2>5. /\ buffer' = [buffer EXCEPT ![p] = {}] /\ batch' = [batch EXCEPT ![p] = {}]
        /\ pending' = [pending EXCEPT ![p] = << >>] /\ prev' = [prev EXCEPT ![p] = << >>]
        /\ job' = [job EXCEPT ![p] = [Idle EXCEPT !.step = "down"]]
        /\ UNCHANGED <<captured, wal, relisted, breach>>
    BY <1>15 DEF Crash
  <2>6. [Idle EXCEPT !.step = "down"] \in JobType /\ [Idle EXCEPT !.step = "down"].early = FALSE
    BY DEF Idle, JobType, Steps
  <2>7. /\ << >> \in Hashes /\ << >> \in Seq(SUBSET Records) /\ Len(<< >>) = 0
        /\ MaxPending \in Nat
    BY ManifestAssumption DEF Hashes
  <2> HIDE DEF Hashes
  <2>8. /\ pending' \in [Procs -> Seq(SUBSET Records)] /\ prev' \in [Procs -> Hashes]
        /\ job' \in [Procs -> JobType]
        /\ \A q \in Procs : Len(pending'[q]) <= MaxPending /\ (job'[q].early => pending'[q] # << >>)
    BY <2>5, <2>6, <2>7
  <2>9. db' \subseteq captured'
    BY <2>1, <2>5
  <2> QED
    BY <2>2, <2>3, <2>4, <2>5, <2>8, <2>9
<1>16. ASSUME NEW p \in Procs, Start(p) PROVE Types'
  <2>1. job' \in [Procs -> JobType] /\ \A q \in Procs : job'[q].early = job[q].early
    BY <1>16, GoesTyped DEF Start, Steps
  <2> QED
    BY <1>16, <2>1 DEF Start, files, history
<1> QED
  BY <1>1, <1>2, <1>3, <1>4, <1>5, <1>6, <1>7, <1>8, <1>9, <1>10, <1>11, <1>12, <1>13, <1>14,
     <1>15, <1>16 DEF Next

-----------------------------------------------------------------------------
(* The chain of lines *)

\* What a write does to the file, as far as it matters.
LEMMA FileEffect ==
    ASSUME Types, NEW p \in Procs, NEW end \in {"none", "cut", "open", "whole"}, FileWith(p, end)
    PROVE  \/ /\ lines' = lines /\ (tail' = tail \/ tail' \in {"cut", "junk"})
              /\ end = "whole" => tail = "cut"
           \/ /\ end \in {"open", "whole"} /\ tail' = end
              /\ lines' = Append(lines, Append(prev[p], Writing(p)))
           \/ /\ tail = "open" /\ lines' = Front(lines) /\ tail' \in {"cut", "junk"}
<1>0. tail \in {"whole", "open", "cut", "junk"}
  BY DEF Types
<1>1. CASE end = "none"
  BY <1>1 DEF FileWith
<1>2. CASE end # "none" /\ tail \in {"whole", "junk"}
  <2>1. tail' = end /\ lines' = IF end = "cut" THEN lines ELSE Append(lines, Line(p))
    BY <1>2 DEF FileWith
  <2> QED
    BY <1>2, <2>1 DEF Line
<1>3. CASE end # "none" /\ tail \in {"open", "cut"}
  <2>1. /\ tail' \in {"junk", "cut"} /\ lines' = IF tail = "open" THEN Front(lines) ELSE lines
    BY <1>3 DEF FileWith
  <2> QED
    BY <1>3, <2>1
<1> QED
  BY <1>0, <1>1, <1>2, <1>3

\* A write by the owner of the lock, who has read the last line, keeps the chain.
LEMMA WriteFollows ==
    ASSUME Types, NEW p \in Procs, NEW end \in {"none", "cut", "open", "whole"}, FileWith(p, end),
           prev[p] = LastHash(p), Unbroken
    PROVE  Unbroken'
<1>0. Follows(lines) /\ lines \in Seq(Hashes)
  BY DEF Unbroken, Follows, Types
<1>1. CASE lines' = lines
  BY <1>1 DEF Unbroken
<1>2. CASE lines' = Append(lines, Append(prev[p], Writing(p)))
  <2>1. prev[p] \in Hashes /\ Writing(p) \in SUBSET Records
    BY WritingTyped DEF Types
  <2>2. prev[p] = IF lines = << >> THEN << >> ELSE Last(lines)
    BY DEF LastHash
  <2>3. Follows(Append(lines, Append(prev[p], Writing(p))))
    BY <1>0, <2>1, <2>2, AppendFollows
  <2> QED
    BY <1>2, <2>3 DEF Unbroken, Follows
<1>3. CASE lines' = Front(lines)
  <2>1. CASE lines = << >>
    <3>1. Front(lines) = << >>
      BY <2>1 DEF Front
    <3> QED
      BY <1>3, <2>1, <3>1 DEF Unbroken
  <2>2. CASE lines # << >>
    <3>1. Follows(Front(lines))
      BY <1>0, <2>2, FrontLines
    <3> QED
      BY <1>3, <3>1 DEF Unbroken, Follows
  <2> QED
    BY <2>1, <2>2
<1> QED
  BY <1>1, <1>2, <1>3, FileEffect

\* A process that concludes is not under the lock any more.
LEMMA ConcludesLeaves ==
    ASSUME Types, NEW p \in Procs, NEW written, Concludes(p, written)
    PROVE  /\ job'[p].step \in {"want", "idle"}
           /\ \A q \in Procs \ {p} : job'[q] = job[q]
<1>1. job \in [Procs -> JobType]
  BY DEF Types
<1> QED
  BY <1>1 DEF Concludes, Idle

\* The one who is under the lock is alone there, and once he has gone nobody is.
LEMMA OwnerIsAlone ==
    ASSUME OwnersHold, breach = {}, NEW p \in Procs, NEW q \in Procs, Under(p), Under(q)
    PROVE  p = q
BY DEF OwnersHold

LEMMA InitChain == Init => ChainInv
<1> SUFFICES ASSUME Init PROVE ChainInv
  OBVIOUS
<1>1. \A p \in Procs : job[p].step = "idle"
  BY DEF Init, Idle
<1>2. lines = << >>
  BY DEF Init
<1> QED
  BY <1>1, <1>2 DEF ChainInv, OwnersHold, WritersAreCurrent, ForksNeedABreach, Unbroken, Under, At

\* When nothing happens to the manifest, and who is under the lock was there before or has
\* just created its file, the chain stays; most steps are of this kind.
LEMMA ChainStill ==
    ASSUME ChainInv, lines' = lines, tail' = tail, breach \subseteq breach',
           breach' = {} => OwnersHold',
           \A p \in Procs : job'[p].step = "append" =>
               \/ job[p].step = "append" /\ prev'[p] = prev[p]
               \/ prev'[p] = LastHash(p) /\ tail \in {"whole", "open"}
    PROVE  ChainInv'
<1> SUFFICES ASSUME breach' = {} PROVE OwnersHold' /\ WritersAreCurrent' /\ Unbroken'
  BY DEF ChainInv, OwnersHold, WritersAreCurrent, ForksNeedABreach
<1>1. breach = {}
  OBVIOUS
<1>2. ASSUME NEW p \in Procs, At(p, "append")'
      PROVE  (prev[p] = LastHash(p))' /\ tail' \in {"whole", "open"}
  BY <1>1, <1>2 DEF ChainInv, WritersAreCurrent, At, LastHash
<1> QED
  BY <1>1, <1>2 DEF ChainInv, WritersAreCurrent, ForksNeedABreach, Unbroken

\* Steps that leave the lock alone and bring nobody under it.
LEMMA OwnersStay ==
    ASSUME ChainInv, breach \subseteq breach',
           lock' = lock \/ (lock # None /\ lock' # None /\ lock'.owner = lock.owner),
           \A p \in Procs : Under(p)' => Under(p)
    PROVE  OwnersHold'
BY DEF ChainInv, OwnersHold

LEMMA ChainStays == Types /\ ChainInv /\ [Next]_vars => ChainInv'
<1> SUFFICES ASSUME Types, ChainInv, [Next]_vars PROVE ChainInv'
  OBVIOUS
<1>0. /\ job \in [Procs -> JobType] /\ prev \in [Procs -> Hashes]
      /\ lock \in [owner : Procs \cup {Dead}, old : BOOLEAN] \cup {None}
      /\ tail \in {"whole", "open", "cut", "junk"}
      /\ Dead \notin Procs /\ None \notin [owner : Procs \cup {Dead}, old : BOOLEAN]
  BY ManifestAssumption DEF Types
\* p's job goes on and the others' do not.
<1>00. \A p \in Procs, s \in Steps : Goes(p, s) =>
          job'[p].step = s /\ \A q \in Procs \ {p} : job'[q] = job[q]
  BY <1>0, GoesTyped
<1>1. CASE UNCHANGED vars
  <2>1. UNCHANGED <<lines, tail, lock, job, prev, breach>>
    BY <1>1 DEF vars, memory, files, history
  <2>2. OwnersHold'
    BY <2>1, OwnersStay DEF Under, At
  <2> QED
    BY <2>1, <2>2, ChainStill
<1>2. CASE Ages
  <2>1. /\ UNCHANGED <<lines, tail, job, prev, breach>>
        /\ lock # None /\ lock' = [lock EXCEPT !.old = TRUE]
    BY <1>2 DEF Ages, memory, history
  <2>2. \A l \in [owner : Procs \cup {Dead}, old : BOOLEAN] :
            [l EXCEPT !.old = TRUE].owner = l.owner
    OBVIOUS
  <2>3. OwnersHold'
    <3>1. \A p \in Procs : Under(p)' => Under(p)
      BY <2>1 DEF Under, At
    <3>2. breach' = {} => \A p \in Procs : Under(p)' => lock'.owner = p /\ lock' # None
      <4>1. lock'.owner = lock.owner
        BY <1>0, <2>1, <2>2
      <4>2. lock' \in [owner : Procs \cup {Dead}, old : BOOLEAN]
        BY <1>0, <2>1
      <4>3. lock' # None
        BY <1>0, <4>2
      <4> QED
        BY <2>1, <3>1, <4>1, <4>3 DEF ChainInv, OwnersHold
    <3> QED
      BY <3>2 DEF OwnersHold
  <2> QED
    BY <2>1, <2>3, ChainStill
<1>3. ASSUME NEW p \in Procs, Record(p) PROVE ChainInv'
  <2>1. UNCHANGED <<lines, tail, lock, job, prev, breach>>
    BY <1>3 DEF Record, history
  <2>2. OwnersHold'
    BY <2>1, OwnersStay DEF Under, At
  <2> QED
    BY <2>1, <2>2, ChainStill
<1>4. ASSUME NEW p \in Procs, FlushBegins(p) \/ Start(p) PROVE ChainInv'
  <2>1. UNCHANGED <<lines, tail, lock, prev, breach>> /\ \E s \in {"insert", "idle"} : Goes(p, s)
    BY <1>4 DEF FlushBegins, Start, files, history
  <2>2. job'[p].step \in {"insert", "idle"} /\ \A q \in Procs \ {p} : job'[q] = job[q]
    BY <1>00, <2>1 DEF Steps
  <2>3. OwnersHold'
    BY <2>1, <2>2, OwnersStay DEF Under, At
  <2> QED
    BY <2>1, <2>2, <2>3, ChainStill
<1>5. ASSUME NEW p \in Procs, Stored(p) \/ InsertFails(p) PROVE ChainInv'
  <2>1. /\ UNCHANGED <<lines, tail, lock, prev, breach>>
        /\ \E j \in {Idle, [step |-> "want", early |-> pending[p] # << >>, written |-> FALSE]} :
              job' = [job EXCEPT ![p] = j]
    BY <1>5 DEF Stored, InsertFails, Listing, files, history
  <2>2. job'[p].step \in {"want", "idle"} /\ \A q \in Procs \ {p} : job'[q] = job[q]
    BY <1>0, <2>1 DEF Idle
  <2>3. OwnersHold'
    BY <2>1, <2>2, OwnersStay DEF Under, At
  <2> QED
    BY <2>1, <2>2, <2>3, ChainStill
<1>6. ASSUME NEW p \in Procs, TryCreate(p) PROVE ChainInv'
  <2>0. UNCHANGED <<lines, tail, prev, breach>>
    BY <1>6 DEF TryCreate, history
  <2>1. CASE lock = None
    <3>1. lock' = [owner |-> p, old |-> FALSE] /\ Goes(p, "inside")
      BY <1>6, <2>1 DEF TryCreate, Free
    <3>2. job'[p].step = "inside" /\ \A q \in Procs \ {p} : job'[q] = job[q]
      BY <1>00, <3>1 DEF Steps
    <3>3. lock'.owner = p /\ lock' # None
      <4>1. [owner |-> p, old |-> FALSE] \in [owner : Procs \cup {Dead}, old : BOOLEAN]
        OBVIOUS
      <4> QED
        BY <1>0, <3>1, <4>1
    <3>4. breach = {} => \A q \in Procs : ~Under(q)
      BY <2>1 DEF ChainInv, OwnersHold
    <3>5. breach' = {} => OwnersHold'
      BY <2>0, <3>2, <3>3, <3>4 DEF OwnersHold, Under, At
    <3> QED
      BY <2>0, <3>2, <3>5, ChainStill
  <2>2. CASE lock # None
    <3>1. lock' = lock /\ \E s \in {"seen", "wait"} : Goes(p, s)
      BY <1>6, <2>2 DEF TryCreate, Free
    <3>2. job'[p].step \in {"seen", "wait"} /\ \A q \in Procs \ {p} : job'[q] = job[q]
      BY <1>00, <3>1 DEF Steps
    <3>3. OwnersHold'
      BY <2>0, <3>1, <3>2, OwnersStay DEF Under, At
    <3> QED
      BY <2>0, <3>2, <3>3, ChainStill
  <2> QED
    BY <2>1, <2>2
<1>7. ASSUME NEW p \in Procs, Stat(p) PROVE ChainInv'
  <2>0. UNCHANGED <<lines, tail, lock, prev>> /\ breach \subseteq breach'
    BY <1>7 DEF Stat, files
  <2>1. CASE lock = None
    <3>1. breach' # {} /\ Goes(p, "inside")
      BY <1>7, <2>1 DEF Stat, Free
    <3>2. job'[p].step = "inside" /\ \A q \in Procs \ {p} : job'[q] = job[q]
      BY <1>00, <3>1 DEF Steps
    <3> QED
      BY <2>0, <3>1, <3>2, ChainStill
  <2>2. CASE lock # None
    <3>1. \E s \in {"stale", "wait"} : Goes(p, s)
      BY <1>7, <2>2 DEF Stat, Free
    <3>2. job'[p].step \in {"stale", "wait"} /\ \A q \in Procs \ {p} : job'[q] = job[q]
      BY <1>00, <3>1 DEF Steps
    <3>3. OwnersHold'
      BY <2>0, <3>2, OwnersStay DEF Under, At
    <3> QED
      BY <2>0, <3>2, <3>3, ChainStill
  <2> QED
    BY <2>1, <2>2
<1>8. ASSUME NEW p \in Procs, TakeOver(p) PROVE ChainInv'
  <2>1. /\ UNCHANGED <<lines, tail, prev>> /\ Goes(p, "retake") /\ lock' = None
        /\ breach' = IF lock # None /\ lock.owner # Dead THEN breach \cup {"removed"} ELSE breach
    BY <1>8 DEF TakeOver
  <2>2. job'[p].step = "retake" /\ \A q \in Procs \ {p} : job'[q] = job[q]
    BY <1>00, <2>1 DEF Steps
  <2>3. ASSUME breach' = {} PROVE \A q \in Procs : ~Under(q)
    <3>1. breach = {} /\ (lock = None \/ lock.owner = Dead)
      BY <2>1, <2>3
    <3> QED
      BY <1>0, <3>1 DEF ChainInv, OwnersHold
  <2>4. breach' = {} => OwnersHold'
    BY <2>2, <2>3 DEF OwnersHold, Under, At
  <2> QED
    BY <2>1, <2>2, <2>4, ChainStill
<1>9. ASSUME NEW p \in Procs, Wait(p) PROVE ChainInv'
  <2>1. UNCHANGED <<lines, tail, lock, prev, breach>>
    BY <1>9 DEF Wait, files
  <2>2. job'[p].step \in {"want", "idle"} /\ \A q \in Procs \ {p} : job'[q] = job[q]
    <3>1. CASE Goes(p, "want")
      BY <1>00, <3>1 DEF Steps
    <3>2. CASE Concludes(p, FALSE)
      BY <3>2, ConcludesLeaves
    <3> QED
      BY <1>9, <3>1, <3>2 DEF Wait
  <2>3. OwnersHold'
    BY <2>1, <2>2, OwnersStay DEF Under, At
  <2> QED
    BY <2>1, <2>2, <2>3, ChainStill
<1>10. ASSUME NEW p \in Procs, ReadLast(p) PROVE ChainInv'
  <2>0. UNCHANGED <<lines, tail, lock, breach>> /\ At(p, "inside")
    BY <1>10 DEF ReadLast, files, history
  <2>1. CASE tail \in {"cut", "junk"}
    <3>1. Goes(p, "release") /\ prev' = prev
      BY <1>10, <2>1 DEF ReadLast
    <3>2. job'[p].step = "release" /\ \A q \in Procs \ {p} : job'[q] = job[q]
      BY <1>00, <3>1 DEF Steps
    <3>3. OwnersHold'
      BY <2>0, <3>2, OwnersStay DEF Under, At
    <3> QED
      BY <2>0, <3>1, <3>2, <3>3, ChainStill
  <2>2. CASE tail \in {"whole", "open"}
    <3>1. Goes(p, "append") /\ prev' = [prev EXCEPT ![p] = LastHash(p)]
      BY <1>10, <2>2 DEF ReadLast
    <3>2. job'[p].step = "append" /\ \A q \in Procs \ {p} : job'[q] = job[q]
      BY <1>00, <3>1 DEF Steps
    <3>3. OwnersHold'
      BY <2>0, <3>2, OwnersStay DEF Under, At
    <3>4. \A q \in Procs : prev'[q] = IF q = p THEN LastHash(p) ELSE prev[q]
      BY <1>0, <3>1
    <3> QED
      BY <2>0, <2>2, <3>2, <3>3, <3>4, ChainStill
  <2> QED
    BY <1>0, <2>1, <2>2
<1>11. ASSUME NEW p \in Procs, Appended(p) \/ AppendFails(p) PROVE ChainInv'
  <2>1. /\ At(p, "append") /\ UNCHANGED <<lock, prev, breach>>
        /\ \E end \in {"none", "cut", "open", "whole"} : FileWith(p, end)
    BY <1>11 DEF Appended, AppendFails
  <2>2. job'[p].step = "release" /\ \A q \in Procs \ {p} : job'[q] = job[q]
    <3>1. CASE Appended(p)
      BY <1>0, <3>1 DEF Appended, JobType
    <3>2. CASE AppendFails(p)
      BY <1>00, <3>2 DEF AppendFails, Steps
    <3> QED
      BY <1>11, <3>1, <3>2
  <2>3. OwnersHold'
    BY <2>1, <2>2, OwnersStay DEF Under, At
  <2>4. ASSUME breach = {} PROVE WritersAreCurrent' /\ Unbroken'
    <3>1. \A q \in Procs : ~At(q, "append")'
      BY <2>1, <2>2, <2>4, OwnerIsAlone DEF ChainInv, Under, At
    <3>2. prev[p] = LastHash(p) /\ Unbroken
      BY <2>1, <2>4 DEF ChainInv, WritersAreCurrent, ForksNeedABreach
    <3>3. Unbroken'
      BY <2>1, <3>2, WriteFollows
    <3> QED
      BY <3>1, <3>3 DEF WritersAreCurrent
  <2> QED
    BY <2>1, <2>3, <2>4 DEF ChainInv, ForksNeedABreach, WritersAreCurrent
<1>12. ASSUME NEW p \in Procs, Release(p) PROVE ChainInv'
  <2>1. /\ UNCHANGED <<lines, tail, prev, breach>> /\ At(p, "release")
        /\ lock' = None \/ (lock # None /\ lock' = [lock EXCEPT !.owner = Dead])
        /\ Concludes(p, job[p].written)
    BY <1>12 DEF Release
  <2>2. job'[p].step \in {"want", "idle"} /\ \A q \in Procs \ {p} : job'[q] = job[q]
    BY <2>1, ConcludesLeaves
  <2>3. breach = {} => \A q \in Procs : ~Under(q)'
    BY <2>1, <2>2, OwnerIsAlone DEF ChainInv, Under, At
  <2>4. OwnersHold'
    BY <2>1, <2>3 DEF OwnersHold
  <2> QED
    BY <2>1, <2>2, <2>4, ChainStill
<1>13. ASSUME NEW p \in Procs, Crash(p) PROVE ChainInv'
  <2>1. /\ breach' = breach /\ prev' = [prev EXCEPT ![p] = << >>]
        /\ job' = [job EXCEPT ![p] = [Idle EXCEPT !.step = "down"]]
        /\ lock' = IF lock # None /\ lock.owner = p THEN [lock EXCEPT !.owner = Dead] ELSE lock
        /\ \E end \in IF At(p, "append") THEN {"none", "cut", "open", "whole"} ELSE {"none"} :
              FileWith(p, end)
    BY <1>13 DEF Crash
  <2>2. /\ job'[p].step = "down" /\ \A q \in Procs \ {p} : job'[q] = job[q] /\ prev'[q] = prev[q]
    BY <1>0, <2>1 DEF Idle
  <2>3. OwnersHold'
    <3>1. ASSUME breach' = {}, NEW q \in Procs, Under(q)' PROVE lock' # None /\ lock'.owner = q
      <4>1. q # p /\ Under(q)
        BY <2>2, <3>1 DEF Under, At
      <4>2. lock # None /\ lock.owner = q
        BY <2>1, <3>1, <4>1 DEF ChainInv, OwnersHold
      <4> QED
        BY <2>1, <4>1, <4>2
    <3> QED
      BY <3>1 DEF OwnersHold
  <2>4. CASE ~At(p, "append")
    <3>1. lines' = lines /\ tail' = tail
      BY <2>1, <2>4 DEF FileWith
    <3> QED
      BY <2>1, <2>2, <2>3, <3>1, ChainStill
  <2>5. CASE At(p, "append")
    <3>1. \E end \in {"none", "cut", "open", "whole"} : FileWith(p, end)
      BY <2>1, <2>5
    <3>2. ASSUME breach = {} PROVE WritersAreCurrent' /\ Unbroken'
      <4>1. \A q \in Procs : ~At(q, "append")'
        BY <2>2, <2>5, <3>2, OwnerIsAlone DEF ChainInv, Under, At
      <4>2. prev[p] = LastHash(p) /\ Unbroken
        BY <2>5, <3>2 DEF ChainInv, WritersAreCurrent, ForksNeedABreach
      <4>3. Unbroken'
        BY <3>1, <4>2, WriteFollows
      <4> QED
        BY <4>1, <4>3 DEF WritersAreCurrent
    <3> QED
      BY <2>1, <2>3, <3>2 DEF ChainInv, ForksNeedABreach, WritersAreCurrent
  <2> QED
    BY <2>4, <2>5
<1> QED
  BY <1>1, <1>2, <1>3, <1>4, <1>5, <1>6, <1>7, <1>8, <1>9, <1>10, <1>11, <1>12, <1>13 DEF Next

-----------------------------------------------------------------------------
(* The account of the records *)

\* What a process has to do with batches depends on its own variables only.
LEMMA OthersKeep ==
    ASSUME NEW q \in Procs, job'[q] = job[q], batch'[q] = batch[q], pending'[q] = pending[q]
    PROVE  /\ Lists(q)' = Lists(q) /\ Queued(q)' = Queued(q) /\ ToList(q)' = ToList(q)
           /\ Writing(q)' = Writing(q) /\ Owed(q)' = Owed(q)
<1>1. Lists(q)' = Lists(q) /\ Queued(q)' = Queued(q) /\ Writing(q)' = Writing(q)
  BY DEF Lists, Queued, Writing
<1>2. ToList(q)' = ToList(q)
  BY <1>1 DEF ToList
<1> QED
  BY <1>1, <1>2 DEF Owed

\* What is being written is to be listed.
LEMMA WritingIsToList ==
    ASSUME Types, NEW p \in Procs, Lists(p)
    PROVE  Writing(p) \subseteq ToList(p)
<1>1. CASE job[p].early
  <2>1. pending[p] # << >> /\ pending[p] \in Seq(SUBSET Records)
    BY <1>1 DEF Types
  <2>2. Head(pending[p]) \subseteq Queued(p)
    BY <2>1, TailQueue DEF Queued
  <2> QED
    BY <1>1, <2>2 DEF Writing, ToList
<1>2. CASE ~job[p].early
  BY <1>2 DEF Writing, ToList
<1> QED
  BY <1>1, <1>2

\* What is owed is to be listed, and all of it is owed before it is written.
LEMMA OwedIsToList ==
    \A p \in Procs : Owed(p) \subseteq ToList(p) /\ (~job[p].written => Owed(p) = ToList(p))
BY DEF Owed

LEMMA InitAccount == Init => Account
<1> SUFFICES ASSUME Init PROVE Account
  OBVIOUS
<1>1. \A p \in Procs : /\ job[p] = Idle /\ pending[p] = << >>
                       /\ Queued(p) = {} /\ ~Lists(p) /\ ToList(p) = {} /\ Owed(p) = {}
  <2>1. Range(<< >>) = {}
    BY DEF Range
  <2> QED
    BY <2>1 DEF Init, Idle, Queued, Lists, ToList, Owed
<1>2. lines = << >> /\ tail = "whole" /\ db = {} /\ Listed = {}
  BY DEF Init, Listed
<1>3. ListsAreStored /\ ListsAreApart
  BY <1>1 DEF ListsAreStored, ListsAreApart, NoneTwice
<1>4. WrittenIsListed /\ OpenIsOwed
  BY <1>1, <1>2 DEF WrittenIsListed, OpenIsOwed, Idle
<1>5. OwedIsNew /\ ListedIsStored /\ StoredIsListed /\ ListedOnce
  BY <1>1, <1>2 DEF OwedIsNew, ListedIsStored, StoredIsListed, ListedOnce
<1> QED
  BY <1>3, <1>4, <1>5 DEF Account

\* A step of one process that leaves the file alone keeps the account if it keeps that
\* of the process: what leaves its lists is listed or given up, what comes to them is new.
LEMMA AccountOfOne ==
    ASSUME Account, NEW p \in Procs,
           lines' = lines, tail' = tail, unlisted \subseteq unlisted', relisted' = relisted,
           db \subseteq db', db' \subseteq db \cup unlisted' \cup ToList(p)',
           \A q \in Procs \ {p} : /\ job'[q] = job[q] /\ batch'[q] = batch[q]
                                  /\ pending'[q] = pending[q],
           NoneTwice(pending[p])', Lists(p)' => (batch[p] \cap Queued(p) = {})',
           ToList(p)' \subseteq db', \A q \in Procs \ {p} : ToList(p)' \cap ToList(q) = {},
           ~job'[p].written,
           Owed(p)' \cap Listed \subseteq relisted,
           Owed(p) \subseteq Owed(p)' \cup unlisted',
           ToList(p) \subseteq ToList(p)' \cup unlisted' \cup Listed
    PROVE  Account'
<1>0. /\ ListsAreStored /\ ListsAreApart /\ WrittenIsListed /\ OpenIsOwed /\ OwedIsNew
      /\ ListedIsStored /\ StoredIsListed /\ ListedOnce
  BY DEF Account
<1>1. \A q \in Procs \ {p} :
          /\ Lists(q)' = Lists(q) /\ Queued(q)' = Queued(q) /\ ToList(q)' = ToList(q)
          /\ Writing(q)' = Writing(q) /\ Owed(q)' = Owed(q)
  BY OthersKeep
<1>2. Listed' = Listed
  BY DEF Listed
<1>3. ListsAreStored'
  BY <1>0, <1>1 DEF ListsAreStored
<1>4. ListsAreApart'
  BY <1>0, <1>1 DEF ListsAreApart
<1>5. WrittenIsListed'
  BY <1>0, <1>1, <1>2 DEF WrittenIsListed, At
<1>6. OpenIsOwed'
  <2> SUFFICES ASSUME tail' = "open", NEW r \in Last(Last(lines)), r \notin unlisted'
               PROVE  \E q \in Procs : r \in Owed(q)'
    BY <1>0 DEF OpenIsOwed
  <2>1. PICK q \in Procs : r \in Owed(q)
    BY <1>0 DEF OpenIsOwed
  <2> QED
    BY <1>1, <2>1
<1>7. OwedIsNew'
  BY <1>0, <1>1, <1>2 DEF OwedIsNew
<1>8. ListedIsStored'
  BY <1>0, <1>2 DEF ListedIsStored
<1>9. StoredIsListed'
  <2> SUFFICES ASSUME NEW r \in db', r \notin unlisted', r \notin Listed
               PROVE  \E q \in Procs : r \in ToList(q)'
    BY <1>2 DEF StoredIsListed
  <2>1. CASE r \in db
    <3>1. PICK q \in Procs : r \in ToList(q)
      BY <1>0, <2>1 DEF StoredIsListed
    <3> QED
      BY <1>1, <3>1
  <2> QED
    BY <2>1
<1>10. ListedOnce'
  BY <1>0 DEF ListedOnce
<1> QED
  BY <1>3, <1>4, <1>5, <1>6, <1>7, <1>8, <1>9, <1>10 DEF Account

\* A step that leaves what is to be listed alone.
LEMMA AccountStill ==
    ASSUME Account, lines' = lines, tail' = tail, unlisted' = unlisted, relisted' = relisted,
           db' = db, pending' = pending,
           \A q \in Procs : /\ job'[q].early = job[q].early /\ job'[q].written = job[q].written
                            /\ job[q].written => job'[q] = job[q]
                            /\ Lists(q)' = Lists(q) /\ (Lists(q) => batch'[q] = batch[q])
    PROVE  Account'
<1>0. /\ ListsAreStored /\ ListsAreApart /\ WrittenIsListed /\ OpenIsOwed /\ OwedIsNew
      /\ ListedIsStored /\ StoredIsListed /\ ListedOnce
  BY DEF Account
<1>1. \A q \in Procs : Queued(q)' = Queued(q) /\ ToList(q)' = ToList(q)
  BY DEF Queued, ToList
<1>2. \A q \in Procs : job[q].written => Writing(q)' = Writing(q) /\ Lists(q)
  BY <1>0 DEF Writing, WrittenIsListed, Lists, At
<1>3. \A q \in Procs : Owed(q)' = Owed(q)
  BY <1>1, <1>2 DEF Owed
<1>4. Listed' = Listed
  BY DEF Listed
<1>5. ListsAreStored' /\ ListsAreApart'
  BY <1>0, <1>1 DEF ListsAreStored, ListsAreApart
<1>6. WrittenIsListed'
  BY <1>0, <1>2, <1>4 DEF WrittenIsListed, At
<1>7. OpenIsOwed' /\ OwedIsNew'
  BY <1>0, <1>3, <1>4 DEF OpenIsOwed, OwedIsNew
<1>8. ListedIsStored' /\ StoredIsListed' /\ ListedOnce'
  BY <1>0, <1>1, <1>4 DEF ListedIsStored, StoredIsListed, ListedOnce
<1> QED
  BY <1>5, <1>6, <1>7, <1>8 DEF Account

\* A batch that is stored is new to the manifest and to all lists.
LEMMA StoredKeeps ==
    ASSUME Types, Account, NEW p \in Procs, Stored(p)
    PROVE  Account'
<1>0. ListsAreStored /\ ListsAreApart /\ WrittenIsListed /\ OwedIsNew /\ ListedIsStored
  BY DEF Account
<1>1. /\ At(p, "insert") /\ batch[p] \cap db = {} /\ db' = db \cup batch[p]
      /\ job' = [job EXCEPT ![p] = [step |-> "want", early |-> pending[p] # << >>,
                                    written |-> FALSE]]
      /\ UNCHANGED <<batch, pending, lines, tail, unlisted, relisted>>
  BY DEF Stored, Listing, history
<1>2. ~job[p].written /\ ~Lists(p)
  BY <1>0, <1>1 DEF WrittenIsListed, Lists, At
<1>3. job'[p].step = "want" /\ ~job'[p].written /\ \A q \in Procs \ {p} : job'[q] = job[q]
  BY <1>1 DEF Types
<1>4. Queued(p)' = Queued(p) /\ Lists(p)'
  BY <1>1, <1>3 DEF Queued, Lists
<1>5. /\ ToList(p) = Queued(p) /\ Owed(p) = Queued(p)
      /\ ToList(p)' = Queued(p) \cup batch[p] /\ Owed(p)' = Queued(p) \cup batch[p]
  BY <1>1, <1>2, <1>3, <1>4 DEF ToList, Owed
<1>6. batch[p] \cap Queued(p) = {} /\ \A q \in Procs : batch[p] \cap ToList(q) = {}
  BY <1>0, <1>1, <1>5 DEF ListsAreStored
<1>7. \A q \in Procs \ {p} : ToList(p)' \cap ToList(q) = {}
  BY <1>0, <1>5, <1>6 DEF ListsAreApart
<1>8. NoneTwice(pending[p])' /\ (batch[p] \cap Queued(p) = {})'
  BY <1>0, <1>1, <1>4, <1>6 DEF ListsAreApart
<1>9. ToList(p)' \subseteq db' /\ db' \subseteq db \cup ToList(p)'
  BY <1>0, <1>1, <1>5 DEF ListsAreStored
<1>10. Owed(p)' \cap Listed \subseteq relisted
  BY <1>0, <1>1, <1>5 DEF OwedIsNew, ListedIsStored
<1> QED
  BY <1>1, <1>3, <1>4, <1>5, <1>7, <1>8, <1>9, <1>10, AccountOfOne

\* What an insertion that fails has stored is given up.
LEMMA InsertFailsKeeps ==
    ASSUME Types, Account, NEW p \in Procs, InsertFails(p)
    PROVE  Account'
<1>0. ListsAreStored /\ ListsAreApart /\ WrittenIsListed /\ OwedIsNew
  BY DEF Account
<1>1. PICK landed \in SUBSET (batch[p] \ db) :
        db' = db \cup landed /\ unlisted' = unlisted \cup landed
  BY DEF InsertFails
<1>2. /\ At(p, "insert") /\ batch' = [batch EXCEPT ![p] = {}] /\ job' = [job EXCEPT ![p] = Idle]
      /\ UNCHANGED <<pending, lines, tail, relisted>>
  BY DEF InsertFails, files
<1>3. ~job[p].written /\ ~Lists(p)
  BY <1>0, <1>2 DEF WrittenIsListed, Lists, At
<1>4. /\ job'[p] = Idle /\ \A q \in Procs \ {p} : job'[q] = job[q] /\ batch'[q] = batch[q]
  BY <1>2 DEF Types
<1>5. Queued(p)' = Queued(p) /\ ~Lists(p)' /\ ~job'[p].written
  BY <1>2, <1>4 DEF Queued, Lists, Idle
<1>6. /\ ToList(p) = Queued(p) /\ Owed(p) = Queued(p)
      /\ ToList(p)' = Queued(p) /\ Owed(p)' = Queued(p)
  BY <1>3, <1>5 DEF ToList, Owed
<1>7. NoneTwice(pending[p])' /\ \A q \in Procs \ {p} : ToList(p)' \cap ToList(q) = {}
  BY <1>0, <1>2, <1>6 DEF ListsAreApart
<1>8. ToList(p)' \subseteq db' /\ db' \subseteq db \cup unlisted' /\ db \subseteq db'
  BY <1>0, <1>1, <1>6 DEF ListsAreStored
<1>9. Owed(p)' \cap Listed \subseteq relisted
  BY <1>0, <1>6 DEF OwedIsNew
<1> QED
  BY <1>1, <1>2, <1>4, <1>5, <1>6, <1>7, <1>8, <1>9, AccountOfOne

\* The end of writing a batch: it has its line, or waits in the queue, or another that
\* leaves the queue for it is given up.
LEMMA ConcludesKeeps ==
    ASSUME Types, Account, NEW p \in Procs, Lists(p), Concludes(p, job[p].written),
           UNCHANGED <<lines, tail, relisted, db>>
    PROVE  Account'
<1>0. ListsAreStored /\ ListsAreApart /\ WrittenIsListed /\ OwedIsNew
  BY DEF Account
<1> DEFINE w == job[p].written
<1>1. /\ pending[p] \in Seq(SUBSET Records) /\ Len(pending[p]) <= MaxPending
      /\ batch[p] \in SUBSET Records /\ w \in BOOLEAN
      /\ job[p].early => pending[p] # << >>
      /\ job \in [Procs -> JobType] /\ pending \in [Procs -> Seq(SUBSET Records)]
      /\ batch \in [Procs -> SUBSET Records]
  BY DEF Types, JobType
<1>2. NoneTwice(pending[p]) /\ batch[p] \cap Queued(p) = {} /\ ToList(p) = Queued(p) \cup batch[p]
  BY <1>0 DEF ListsAreApart, ToList
<1>3. w => Writing(p) \subseteq unlisted \cup Listed
  BY <1>0 DEF WrittenIsListed
<1>4. Owed(p) = IF w THEN ToList(p) \ Writing(p) ELSE ToList(p)
  BY DEF Owed
\* Whatever the case, it is enough to look at p's lists.
<1>5. ASSUME unlisted \subseteq unlisted', ~job'[p].written, NoneTwice(pending'[p]),
             \A q \in Procs \ {p} : /\ job'[q] = job[q] /\ batch'[q] = batch[q]
                                    /\ pending'[q] = pending[q],
             Lists(p)' => batch'[p] \cap Queued(p)' = {},
             ToList(p)' \subseteq Owed(p),
             Owed(p) \subseteq ToList(p)' \cup unlisted'
      PROVE  Account'
  <2>1. Owed(p)' = ToList(p)'
    BY <1>5 DEF Owed
  <2>2. Owed(p) \subseteq ToList(p) /\ ToList(p) \subseteq Owed(p) \cup unlisted \cup Listed
    BY <1>3, <1>4
  <2>3. ToList(p)' \subseteq db' /\ \A q \in Procs \ {p} : ToList(p)' \cap ToList(q) = {}
    BY <1>0, <1>5, <2>2 DEF ListsAreStored, ListsAreApart
  <2>4. Owed(p)' \cap Listed \subseteq relisted
    BY <1>0, <1>5, <2>1 DEF OwedIsNew
  <2>5. Owed(p) \subseteq Owed(p)' \cup unlisted'
    BY <1>5, <2>1
  <2>6. ToList(p) \subseteq ToList(p)' \cup unlisted' \cup Listed
    BY <1>5, <2>2
  <2> QED
    BY <1>5, <2>3, <2>4, <2>5, <2>6, AccountOfOne
<1>6. CASE job[p].early
  <2>1. /\ pending' = [pending EXCEPT ![p] = Drained(pending[p], w)]
        /\ job' = [job EXCEPT ![p] = [step |-> "want", written |-> FALSE,
                                       early |-> w /\ pending'[p] # << >>]]
        /\ batch' = batch /\ unlisted' = unlisted
    BY <1>6 DEF Concludes
  <2>2. /\ job'[p].step = "want" /\ ~job'[p].written /\ pending'[p] = Drained(pending[p], w)
        /\ \A q \in Procs \ {p} : job'[q] = job[q] /\ pending'[q] = pending[q]
    BY <1>1, <2>1
  <2>3. Lists(p)' /\ ToList(p)' = Queued(p)' \cup batch[p]
    BY <2>1, <2>2 DEF Lists, ToList
  <2>4. CASE w
    <3>1. pending'[p] = Tail(pending[p]) /\ Writing(p) = Head(pending[p])
      BY <1>6, <2>2, <2>4 DEF Drained, Writing
    <3>2. /\ NoneTwice(Tail(pending[p]))
          /\ Queued(p)' \subseteq Queued(p) /\ Queued(p) \subseteq Queued(p)' \cup Writing(p)
          /\ Writing(p) \cap Queued(p)' = {} /\ Writing(p) \subseteq Queued(p)
      <4>1. /\ UNION Range(Tail(pending[p])) \subseteq UNION Range(pending[p])
            /\ UNION Range(pending[p])
                  \subseteq (UNION Range(Tail(pending[p]))) \cup Head(pending[p])
            /\ Head(pending[p]) \subseteq UNION Range(pending[p])
            /\ NoneTwice(Tail(pending[p]))
            /\ Head(pending[p]) \cap UNION Range(Tail(pending[p])) = {}
        BY <1>1, <1>2, <1>6, TailQueue
      <4> QED
        BY <3>1, <4>1 DEF Queued
    <3>3. ToList(p)' = Owed(p)
      BY <1>2, <1>4, <2>3, <2>4, <3>2
    <3> QED
      BY <1>2, <1>5, <2>1, <2>2, <3>1, <3>2, <3>3
  <2>5. CASE ~w
    <3>1. pending'[p] = pending[p]
      BY <2>2, <2>5 DEF Drained
    <3>2. Queued(p)' = Queued(p)
      BY <3>1 DEF Queued
    <3>3. ToList(p)' = Owed(p)
      BY <1>2, <1>4, <2>3, <2>5, <3>2
    <3> QED
      BY <1>2, <1>5, <2>1, <2>2, <3>1, <3>2, <3>3
  <2> QED
    BY <2>4, <2>5
<1>7. CASE ~job[p].early
  <2>1. /\ batch' = [batch EXCEPT ![p] = {}] /\ job' = [job EXCEPT ![p] = Idle]
        /\ Writing(p) = batch[p]
    BY <1>7 DEF Concludes, Writing
  <2>2. /\ job'[p] = Idle /\ ~job'[p].written
        /\ \A q \in Procs \ {p} : job'[q] = job[q] /\ batch'[q] = batch[q]
    BY <1>1, <2>1 DEF Idle
  <2>3. ~Lists(p)' /\ ToList(p)' = Queued(p)'
    BY <2>2 DEF Lists, ToList, Idle
  <2>4. CASE w
    <3>1. pending' = pending /\ unlisted' = unlisted
      BY <1>7, <2>4 DEF Concludes
    <3>2. Queued(p)' = Queued(p)
      BY <3>1 DEF Queued
    <3>3. ToList(p)' = Owed(p)
      BY <1>2, <1>4, <2>1, <2>3, <2>4, <3>2
    <3> QED
      BY <1>2, <1>5, <2>2, <2>3, <3>1, <3>3
  <2>5. CASE ~w
    <3>1. /\ pending' = [pending EXCEPT ![p] = Enqueued(pending[p], batch[p])]
          /\ unlisted' = unlisted \cup Dropped(p)
      BY <1>7, <2>5 DEF Concludes
    <3>2. /\ pending'[p] = Enqueued(pending[p], batch[p])
          /\ \A q \in Procs \ {p} : pending'[q] = pending[q]
      BY <1>1, <3>1
    <3>3. /\ NoneTwice(Enqueued(pending[p], batch[p]))
          /\ Queued(p)' \subseteq Queued(p) \cup batch[p]
          /\ Queued(p) \cup batch[p] \subseteq Queued(p)' \cup Dropped(p)
      <4>1. PICK queue \in Seq(SUBSET Records), b \in SUBSET Records :
              queue = pending[p] /\ b = batch[p] /\ Len(queue) <= MaxPending
        BY <1>1
      <4>2. /\ Union(Enqueued(queue, b)) \subseteq Union(queue) \cup b
            /\ NoneTwice(queue) /\ b \cap Union(queue) = {} => NoneTwice(Enqueued(queue, b))
        BY <4>1, EnqueuedQueue
      <4>3. Union(queue) \cup b \subseteq Union(Enqueued(queue, b)) \cup Dropped(p)
        <5>1. CASE Len(queue) >= MaxPending
          <6>1. Dropped(p) = Head(queue)
            BY <4>1, <5>1 DEF Dropped
          <6> QED
            BY <4>1, <5>1, <6>1, EnqueuedQueue
        <5>2. CASE Len(queue) < MaxPending
          BY <4>1, <5>2, EnqueuedQueue
        <5> QED
          BY <5>1, <5>2, ManifestAssumption
      <4>4. Queued(p) = Union(queue) /\ Queued(p)' = Union(Enqueued(queue, b))
        BY <3>2, <4>1 DEF Queued, Union
      <4> QED
        BY <1>2, <4>1, <4>2, <4>3, <4>4
    <3>4. ToList(p)' \subseteq Owed(p) /\ Owed(p) \subseteq ToList(p)' \cup unlisted'
      BY <1>2, <1>4, <2>3, <2>5, <3>1, <3>3
    <3> QED
      BY <1>5, <2>2, <2>3, <3>1, <3>2, <3>3, <3>4
  <2> QED
    BY <2>4, <2>5
<1> QED
  BY <1>6, <1>7

\* A write under the lock, whether it is known to have succeeded or taken to have failed:
\* the batch has its line, or is still owed, and what got spoilt is given up.
LEMMA WriteKeeps ==
    ASSUME Types, Account, NEW p \in Procs, At(p, "append"),
           NEW end \in {"none", "cut", "open", "whole"}, FileWith(p, end),
           UNCHANGED <<batch, pending, db>>,
           job'[p].step = "release", job'[p].early = job[p].early,
           job'[p].written => end = "whole",
           \A q \in Procs \ {p} : job'[q] = job[q],
           relisted \subseteq relisted',
           end \in {"open", "whole"} /\ ~job'[p].written => Writing(p) \subseteq relisted',
           unlisted \subseteq unlisted', end # "none" => Glued(p) \subseteq unlisted'
    PROVE  Account'
<1>0. /\ ListsAreStored /\ ListsAreApart /\ WrittenIsListed /\ OpenIsOwed /\ OwedIsNew
      /\ ListedIsStored /\ StoredIsListed /\ ListedOnce
  BY DEF Account
<1>1. ~job[p].written /\ Lists(p) /\ Lists(p)'
  BY <1>0 DEF WrittenIsListed, Lists, At
<1>2. Writing(p) \subseteq ToList(p) /\ Owed(p) = ToList(p)
  BY <1>1, WritingIsToList, OwedIsToList
<1>3. \A q \in Procs : /\ Lists(q)' = Lists(q) /\ Queued(q)' = Queued(q) /\ ToList(q)' = ToList(q)
                       /\ Writing(q)' = Writing(q)
  <2>1. /\ Queued(p)' = Queued(p) /\ ToList(p)' = ToList(p) /\ Writing(p)' = Writing(p)
    BY <1>1 DEF Queued, ToList, Writing
  <2>2. \A q \in Procs \ {p} :
            /\ Lists(q)' = Lists(q) /\ Queued(q)' = Queued(q) /\ ToList(q)' = ToList(q)
            /\ Writing(q)' = Writing(q)
    BY OthersKeep
  <2>3. Lists(p)' = Lists(p)
    BY <1>1 DEF Lists
  <2> QED
    BY <2>1, <2>2, <2>3
<1>4. \A q \in Procs \ {p} : Owed(q)' = Owed(q)
  BY OthersKeep
<1>5. Owed(p)' = IF job'[p].written THEN ToList(p) \ Writing(p) ELSE ToList(p)
  BY <1>3 DEF Owed
<1>6. \A q \in Procs \ {p} : Writing(p) \cap Owed(q) = {}
  BY <1>0, <1>2, OwedIsToList DEF ListsAreApart
<1>7. ListsAreStored' /\ ListsAreApart'
  BY <1>0, <1>3 DEF ListsAreStored, ListsAreApart
<1>8. lines \in Seq(Hashes) /\ prev[p] \in Hashes /\ Writing(p) \in SUBSET Records
  BY WritingTyped DEF Types
<1>9. CASE /\ lines' = lines /\ (tail' = tail \/ tail' \in {"cut", "junk"})
           /\ end = "whole" => tail = "cut"
  <2>1. Listed' = Listed
    BY <1>9 DEF Listed
  <2>2. job'[p].written => Writing(p) \subseteq unlisted'
    BY <1>9 DEF Glued
  <2>3. WrittenIsListed'
    BY <1>0, <1>3, <2>1, <2>2 DEF WrittenIsListed, At
  <2>4. OpenIsOwed'
    <3> SUFFICES ASSUME tail' = "open", NEW r \in Last(Last(lines)), r \notin unlisted'
                 PROVE  \E q \in Procs : r \in Owed(q)'
      BY <1>0, <1>9 DEF OpenIsOwed
    <3>1. tail = "open" /\ ~job'[p].written
      BY <1>9
    <3>2. PICK q \in Procs : r \in Owed(q)
      BY <1>0, <3>1 DEF OpenIsOwed
    <3> QED
      BY <1>2, <1>4, <1>5, <3>1, <3>2
  <2>5. OwedIsNew'
    BY <1>0, <1>2, <1>4, <1>5, <2>1 DEF OwedIsNew
  <2>6. ListedIsStored' /\ StoredIsListed'
    BY <1>0, <1>3, <2>1 DEF ListedIsStored, StoredIsListed
  <2>7. ListedOnce'
    BY <1>0, <1>9 DEF ListedOnce
  <2> QED
    BY <1>7, <2>3, <2>4, <2>5, <2>6, <2>7 DEF Account
<1>10. CASE /\ end \in {"open", "whole"} /\ tail' = end
            /\ lines' = Append(lines, Append(prev[p], Writing(p)))
  <2>1. /\ Listed' = Listed \cup Writing(p) /\ lines' # << >> /\ Last(Last(lines')) = Writing(p)
    <3>1. /\ Batches(lines') = Batches(lines) \cup Writing(p) /\ lines' # << >>
          /\ Last(Last(lines')) = Writing(p)
      BY <1>8, <1>10, AppendBatches
    <3> QED
      BY <3>1 DEF Listed, Batches
  <2>2. WrittenIsListed'
    BY <1>0, <1>3, <2>1 DEF WrittenIsListed, At
  <2>3. OpenIsOwed'
    <3> SUFFICES ASSUME tail' = "open", NEW r \in Writing(p) PROVE \E q \in Procs : r \in Owed(q)'
      BY <2>1 DEF OpenIsOwed
    <3> QED
      BY <1>2, <1>5, <1>10
  <2>4. OwedIsNew'
    <3> SUFFICES ASSUME NEW q \in Procs PROVE Owed(q)' \cap Listed' \subseteq relisted'
      BY DEF OwedIsNew
    <3>1. Owed(q) \cap Listed \subseteq relisted
      BY <1>0 DEF OwedIsNew
    <3>2. CASE q = p
      BY <1>2, <1>5, <1>10, <2>1, <3>1, <3>2
    <3>3. CASE q # p
      BY <1>4, <1>6, <2>1, <3>1, <3>3
    <3> QED
      BY <3>2, <3>3
  <2>5. ListedIsStored' /\ StoredIsListed'
    BY <1>0, <1>2, <1>3, <2>1 DEF ListedIsStored, StoredIsListed, ListsAreStored
  <2>6. ListedOnce'
    <3>1. Once(lines, relisted')
      BY <1>0 DEF ListedOnce, Once
    <3>2. Writing(p) \cap Batches(lines) \subseteq relisted'
      BY <1>0, <1>2 DEF OwedIsNew, Listed, Batches
    <3>3. Once(lines', relisted')
      BY <1>8, <1>10, <3>1, <3>2, AppendOnce
    <3> QED
      BY <3>3 DEF ListedOnce, Once
  <2> QED
    BY <1>7, <2>2, <2>3, <2>4, <2>5, <2>6 DEF Account
<1>11. CASE tail = "open" /\ lines' = Front(lines) /\ tail' \in {"cut", "junk"}
  <2>0. lines # << >>
    BY <1>0, <1>11 DEF OpenIsOwed
  <2>1. /\ Listed' \subseteq Listed /\ Listed \subseteq Listed' \cup Last(Last(lines))
        /\ \A again : Once(lines, again) => Once(lines', again)
    <3>1. /\ Batches(lines') \subseteq Batches(lines)
          /\ Batches(lines) \subseteq Batches(lines') \cup Last(Last(lines))
          /\ \A again : Once(lines, again) => Once(lines', again)
      BY <1>8, <1>11, <2>0, FrontLines
    <3> QED
      BY <3>1 DEF Listed, Batches
  <2>2. end # "none"
    BY <1>11 DEF FileWith
  <2>3. Last(Last(lines)) \subseteq unlisted' /\ Writing(p) \subseteq unlisted'
    BY <1>11, <2>2 DEF Glued
  <2>4. WrittenIsListed'
    BY <1>0, <1>3, <2>1, <2>3 DEF WrittenIsListed, At
  <2>5. OpenIsOwed'
    BY <1>11 DEF OpenIsOwed
  <2>6. OwedIsNew'
    BY <1>0, <1>2, <1>4, <1>5, <2>1 DEF OwedIsNew
  <2>7. ListedIsStored' /\ StoredIsListed'
    BY <1>0, <1>3, <2>1, <2>3 DEF ListedIsStored, StoredIsListed
  <2>8. ListedOnce'
    BY <1>0, <2>1 DEF ListedOnce, Once
  <2> QED
    BY <1>7, <2>4, <2>5, <2>6, <2>7, <2>8 DEF Account
<1> QED
  BY <1>9, <1>10, <1>11, FileEffect

\* A process that dies gives up all it had to list; what it was writing, and a line of its
\* own or of another that it spoils, are among that or still owed.
LEMMA CrashKeeps ==
    ASSUME Types, Account, NEW p \in Procs, Crash(p)
    PROVE  Account'
<1>0. /\ ListsAreStored /\ ListsAreApart /\ WrittenIsListed /\ OpenIsOwed /\ OwedIsNew
      /\ ListedIsStored /\ StoredIsListed /\ ListedOnce
  BY DEF Account
<1>1. PICK landed \in SUBSET IF At(p, "insert") THEN batch[p] \ db ELSE {} :
        db' = db \cup landed /\ unlisted' = unlisted \cup landed \cup ToList(p)
  BY DEF Crash
<1>2. PICK end \in IF At(p, "append") THEN {"none", "cut", "open", "whole"} ELSE {"none"} :
        FileWith(p, end)
  BY DEF Crash
<1>3. /\ batch' = [batch EXCEPT ![p] = {}] /\ pending' = [pending EXCEPT ![p] = << >>]
      /\ job' = [job EXCEPT ![p] = [Idle EXCEPT !.step = "down"]] /\ relisted' = relisted
  BY DEF Crash
<1>4. /\ job'[p] = [Idle EXCEPT !.step = "down"] /\ pending'[p] = << >> /\ batch'[p] = {}
      /\ \A q \in Procs \ {p} : job'[q] = job[q] /\ batch'[q] = batch[q] /\ pending'[q] = pending[q]
  BY <1>3 DEF Types
<1>5. \A q \in Procs \ {p} :
          /\ Lists(q)' = Lists(q) /\ Queued(q)' = Queued(q) /\ ToList(q)' = ToList(q)
          /\ Writing(q)' = Writing(q) /\ Owed(q)' = Owed(q)
  BY <1>4, OthersKeep
<1>6. ~job'[p].written /\ ~Lists(p)' /\ Queued(p)' = {} /\ ToList(p)' = {} /\ Owed(p)' = {}
  <2>1. ~job'[p].written /\ ~Lists(p)'
    BY <1>4 DEF Idle, Lists
  <2>2. Queued(p)' = {}
    BY <1>4 DEF Queued, Range
  <2> QED
    BY <2>1, <2>2 DEF ToList, Owed
<1>7. unlisted \cup ToList(p) \subseteq unlisted' /\ Owed(p) \subseteq ToList(p) /\ db \subseteq db'
      /\ db' \subseteq db \cup unlisted'
  BY <1>1, OwedIsToList
<1>8. ListsAreStored'
  BY <1>0, <1>5, <1>6, <1>7 DEF ListsAreStored
<1>9. ListsAreApart'
  <2>1. NoneTwice(pending'[p])
    BY <1>4 DEF NoneTwice
  <2> QED
    BY <1>0, <1>4, <1>5, <1>6, <2>1 DEF ListsAreApart
<1>10. At(p, "append") => ~job[p].written /\ Writing(p) \subseteq ToList(p) /\ Owed(p) = ToList(p)
  <2>1. At(p, "append") => ~job[p].written /\ Lists(p)
    BY <1>0 DEF WrittenIsListed, Lists, At
  <2> QED
    BY <2>1, WritingIsToList, OwedIsToList
<1>11. lines \in Seq(Hashes) /\ prev[p] \in Hashes /\ Writing(p) \in SUBSET Records
  BY WritingTyped DEF Types
<1>16. \A q \in Procs : job'[q].written =>
          At(q, "release")' /\ Writing(q)' \subseteq unlisted' \cup Listed
  <2> SUFFICES ASSUME NEW q \in Procs, job'[q].written
               PROVE  At(q, "release")' /\ Writing(q)' \subseteq unlisted' \cup Listed
    OBVIOUS
  <2>1. q # p
    BY <1>6
  <2>2. job'[q] = job[q] /\ Writing(q)' = Writing(q)
    BY <1>4, <1>5, <2>1
  <2>3. At(q, "release") /\ Writing(q) \subseteq unlisted \cup Listed
    BY <1>0, <2>2 DEF WrittenIsListed
  <2> QED
    BY <1>7, <2>2, <2>3 DEF At
\* The case that the file is as it was, or has a piece of a line more.
<1>12. CASE lines' = lines /\ (tail' = tail \/ tail' \in {"cut", "junk"})
  <2>1. Listed' = Listed
    BY <1>12 DEF Listed
  <2>2. WrittenIsListed'
    BY <1>16, <2>1 DEF WrittenIsListed
  <2>3. OpenIsOwed'
    <3> SUFFICES ASSUME tail' = "open", NEW r \in Last(Last(lines)), r \notin unlisted'
                 PROVE  \E q \in Procs : r \in Owed(q)'
      BY <1>0, <1>12 DEF OpenIsOwed
    <3>1. PICK q \in Procs : r \in Owed(q)
      BY <1>0, <1>7, <1>12 DEF OpenIsOwed
    <3> QED
      BY <1>5, <1>7, <3>1
  <2>4. OwedIsNew'
    BY <1>0, <1>3, <1>5, <1>6, <2>1 DEF OwedIsNew
  <2>5. ListedIsStored' /\ ListedOnce'
    BY <1>0, <1>3, <1>7, <1>12, <2>1 DEF ListedIsStored, ListedOnce
  <2>6. StoredIsListed'
    <3> SUFFICES ASSUME NEW r \in db', r \notin unlisted', r \notin Listed
                 PROVE  \E q \in Procs : r \in ToList(q)'
      BY <2>1 DEF StoredIsListed
    <3>1. PICK q \in Procs : r \in ToList(q)
      BY <1>0, <1>7 DEF StoredIsListed
    <3> QED
      BY <1>5, <1>7, <3>1
  <2> QED
    BY <1>8, <1>9, <2>2, <2>3, <2>4, <2>5, <2>6 DEF Account
\* It has the line, which p has not lived to know.
<1>13. CASE /\ end \in {"open", "whole"} /\ tail' = end
            /\ lines' = Append(lines, Append(prev[p], Writing(p)))
  <2>0. At(p, "append")
    BY <1>2, <1>13
  <2>1. /\ Listed' = Listed \cup Writing(p) /\ lines' # << >> /\ Last(Last(lines')) = Writing(p)
    <3>1. /\ Batches(lines') = Batches(lines) \cup Writing(p) /\ lines' # << >>
          /\ Last(Last(lines')) = Writing(p)
      BY <1>11, <1>13, AppendBatches
    <3> QED
      BY <3>1 DEF Listed, Batches
  <2>2. WrittenIsListed'
    BY <1>16, <2>1 DEF WrittenIsListed
  <2>3. OpenIsOwed'
    BY <1>7, <1>10, <2>0, <2>1 DEF OpenIsOwed
  <2>4. OwedIsNew'
    <3> SUFFICES ASSUME NEW q \in Procs PROVE Owed(q)' \cap Listed' \subseteq relisted'
      BY DEF OwedIsNew
    <3>1. Owed(q) \cap Listed \subseteq relisted
      BY <1>0 DEF OwedIsNew
    <3>2. q # p => Writing(p) \cap Owed(q) = {}
      BY <1>0, <1>10, <2>0, OwedIsToList DEF ListsAreApart
    <3> QED
      BY <1>3, <1>5, <1>6, <2>1, <3>1, <3>2
  <2>5. ListedIsStored'
    BY <1>0, <1>7, <1>10, <2>0, <2>1 DEF ListedIsStored, ListsAreStored
  <2>6. StoredIsListed'
    <3> SUFFICES ASSUME NEW r \in db', r \notin unlisted', r \notin Listed'
                 PROVE  \E q \in Procs : r \in ToList(q)'
      BY DEF StoredIsListed
    <3>1. PICK q \in Procs : r \in ToList(q)
      BY <1>0, <1>7, <2>1 DEF StoredIsListed
    <3> QED
      BY <1>5, <1>7, <3>1
  <2>7. ListedOnce'
    <3>1. Writing(p) \cap Batches(lines) \subseteq relisted
      BY <1>0, <1>10, <2>0 DEF OwedIsNew, Listed, Batches
    <3>0. Once(lines, relisted)
      BY <1>0 DEF ListedOnce, Once
    <3>2. Once(lines', relisted)
      BY <1>11, <1>13, <3>0, <3>1, AppendOnce
    <3> QED
      BY <1>3, <3>2 DEF ListedOnce, Once
  <2> QED
    BY <1>8, <1>9, <2>2, <2>3, <2>4, <2>5, <2>6, <2>7 DEF Account
\* A line is spoilt, which is owed or given up: nothing that counts as written.
<1>14. CASE tail = "open" /\ lines' = Front(lines) /\ tail' \in {"cut", "junk"}
  <2>0. lines # << >> /\ Last(Last(lines)) \subseteq unlisted \cup UNION {Owed(q) : q \in Procs}
    BY <1>0, <1>14 DEF OpenIsOwed
  <2>1. /\ Listed' \subseteq Listed /\ Listed \subseteq Listed' \cup Last(Last(lines))
        /\ \A again : Once(lines, again) => Once(lines', again)
    <3>1. /\ Batches(lines') \subseteq Batches(lines)
          /\ Batches(lines) \subseteq Batches(lines') \cup Last(Last(lines))
          /\ \A again : Once(lines, again) => Once(lines', again)
      BY <1>11, <1>14, <2>0, FrontLines
    <3> QED
      BY <3>1 DEF Listed, Batches
  <2>2. WrittenIsListed'
    <3> SUFFICES ASSUME NEW q \in Procs, job'[q].written
                 PROVE  At(q, "release")' /\ Writing(q)' \subseteq unlisted' \cup Listed'
      BY DEF WrittenIsListed
    <3>1. q # p /\ job[q].written /\ Writing(q)' = Writing(q)
      BY <1>4, <1>5, <1>6
    <3>2. At(q, "release") /\ Writing(q) \subseteq unlisted \cup Listed
      BY <1>0, <3>1 DEF WrittenIsListed
    <3>3. Lists(q)
      BY <3>2 DEF Lists, At
    <3>4. Writing(q) \subseteq ToList(q) /\ Writing(q) \cap Owed(q) = {}
      BY <3>1, <3>3, WritingIsToList DEF Owed
    <3>5. \A o \in Procs : Writing(q) \cap Owed(o) = {}
      BY <1>0, <3>4, OwedIsToList DEF ListsAreApart
    <3>6. Writing(q) \cap Last(Last(lines)) \subseteq unlisted
      BY <2>0, <3>5
    <3> QED
      BY <1>4, <1>7, <2>1, <3>1, <3>2, <3>6 DEF At
  <2>3. OpenIsOwed'
    BY <1>14 DEF OpenIsOwed
  <2>4. OwedIsNew'
    BY <1>0, <1>3, <1>5, <1>6, <2>1 DEF OwedIsNew
  <2>5. ListedIsStored' /\ ListedOnce'
    BY <1>0, <1>3, <1>7, <2>1 DEF ListedIsStored, ListedOnce, Once
  <2>6. StoredIsListed'
    <3> SUFFICES ASSUME NEW r \in db', r \notin unlisted', r \notin Listed'
                 PROVE  \E q \in Procs : r \in ToList(q)'
      BY DEF StoredIsListed
    <3>1. CASE r \in Listed
      <4>1. PICK q \in Procs : r \in Owed(q)
        BY <1>7, <2>0, <2>1, <3>1
      <4> QED
        BY <1>5, <1>7, <4>1, OwedIsToList
    <3>2. CASE r \notin Listed
      <4>1. PICK q \in Procs : r \in ToList(q)
        BY <1>0, <1>7, <3>2 DEF StoredIsListed
      <4> QED
        BY <1>5, <1>7, <4>1
    <3> QED
      BY <3>1, <3>2
  <2> QED
    BY <1>8, <1>9, <2>2, <2>3, <2>4, <2>5, <2>6 DEF Account
<1>15. end \in {"none", "cut", "open", "whole"}
  BY <1>2
<1> QED
  BY <1>2, <1>12, <1>13, <1>14, <1>15, FileEffect

LEMMA AccountStays == Types /\ Account /\ [Next]_vars => Account'
<1> SUFFICES ASSUME Types, Account, [Next]_vars PROVE Account'
  OBVIOUS
<1>0. job \in [Procs -> JobType] /\ batch \in [Procs -> SUBSET Records]
  BY DEF Types
\* The job of p goes from step to step, and none of its batches comes or goes by it.
<1>00. ASSUME NEW p \in Procs, NEW s \in Steps, Goes(p, s), ~At(p, "release"),
              Lists(p) = (s \notin {"idle", "insert", "down"})
       PROVE  \A q \in Procs : /\ job'[q].early = job[q].early /\ job'[q].written = job[q].written
                               /\ job[q].written => job'[q] = job[q]
                               /\ Lists(q)' = Lists(q)
  <2>1. /\ job'[p].step = s /\ \A q \in Procs \ {p} : job'[q] = job[q]
        /\ \A q \in Procs : job'[q].early = job[q].early /\ job'[q].written = job[q].written
    BY <1>0, <1>00, GoesTyped
  <2>2. ~job[p].written
    BY <1>00 DEF Account, WrittenIsListed
  <2>3. \A q \in Procs : Lists(q)' = Lists(q)
    BY <1>00, <2>1 DEF Lists
  <2> QED
    BY <2>1, <2>2, <2>3
<1>1. CASE UNCHANGED vars
  BY <1>1, AccountStill DEF vars, memory, files, history, Lists
<1>2. CASE Ages
  BY <1>2, AccountStill DEF Ages, memory, history, Lists
<1>3. ASSUME NEW p \in Procs, Record(p) PROVE Account'
  BY <1>3, AccountStill DEF Record, history, Lists
<1>4. ASSUME NEW p \in Procs, FlushBegins(p) \/ Start(p) PROVE Account'
  <2>1. /\ UNCHANGED <<lines, tail, unlisted, relisted, db, pending>>
        /\ \E s \in {"insert", "idle"} : Goes(p, s)
        /\ ~At(p, "release") /\ ~Lists(p) /\ \A q \in Procs \ {p} : batch'[q] = batch[q]
    BY <1>0, <1>4 DEF FlushBegins, Start, files, history, At, Lists
  <2>3. PICK s \in {"insert", "idle"} : Goes(p, s)
    BY <2>1
  <2>4. s \in Steps /\ Lists(p) = (s \notin {"idle", "insert", "down"})
    BY <2>1 DEF Steps, Lists
  <2>2. \A q \in Procs : /\ job'[q].early = job[q].early /\ job'[q].written = job[q].written
                         /\ job[q].written => job'[q] = job[q]
                         /\ Lists(q)' = Lists(q)
    BY <1>00, <2>1, <2>3, <2>4
  <2> QED
    BY <2>1, <2>2, AccountStill
<1>5. ASSUME NEW p \in Procs, Stored(p) \/ InsertFails(p) \/ Crash(p) PROVE Account'
  BY <1>5, StoredKeeps, InsertFailsKeeps, CrashKeeps
<1>6. ASSUME NEW p \in Procs, TryCreate(p) \/ Stat(p) \/ TakeOver(p) \/ ReadLast(p) PROVE Account'
  <2>1. /\ UNCHANGED <<lines, tail, unlisted, relisted, db, pending, batch>>
        /\ ~At(p, "release") /\ Lists(p)
    BY <1>6 DEF TryCreate, Stat, TakeOver, ReadLast, files, history, At, Lists
  <2>2. \E s \in {"inside", "seen", "wait", "stale", "retake", "release", "append"} : Goes(p, s)
    <3>1. TryCreate(p) => Goes(p, "inside") \/ Goes(p, IF At(p, "want") THEN "seen" ELSE "wait")
      BY DEF TryCreate
    <3>2. Stat(p) => Goes(p, IF Free THEN "inside" ELSE IF lock.old THEN "stale" ELSE "wait")
      BY DEF Stat
    <3>3. TakeOver(p) => Goes(p, "retake")
      BY DEF TakeOver
    <3>4. ReadLast(p) => Goes(p, "release") \/ Goes(p, "append")
      BY DEF ReadLast
    <3> QED
      BY <1>6, <3>1, <3>2, <3>3, <3>4
  <2>3. \A q \in Procs : /\ job'[q].early = job[q].early /\ job'[q].written = job[q].written
                         /\ job[q].written => job'[q] = job[q]
                         /\ Lists(q)' = Lists(q)
    BY <1>00, <2>1, <2>2 DEF Steps
  <2> QED
    BY <2>1, <2>3, AccountStill
<1>7. ASSUME NEW p \in Procs, Wait(p) PROVE Account'
  <2>1. At(p, "wait") /\ UNCHANGED <<lines, tail, relisted, db>> /\ Lists(p)
    BY <1>7 DEF Wait, files, At, Lists
  <2>2. CASE Goes(p, "want") /\ UNCHANGED <<batch, pending, unlisted>>
    <3>1. ~At(p, "release")
      BY <2>1 DEF At
    <3>2. \A q \in Procs : /\ job'[q].early = job[q].early /\ job'[q].written = job[q].written
                           /\ job[q].written => job'[q] = job[q]
                           /\ Lists(q)' = Lists(q)
      BY <1>00, <2>1, <2>2, <3>1 DEF Steps
    <3> QED
      BY <2>1, <2>2, <3>2, AccountStill
  <2>3. CASE Concludes(p, FALSE)
    <3>1. job[p].written = FALSE
      <4>1. ~job[p].written
        BY <2>1 DEF Account, WrittenIsListed, At
      <4> QED
        BY <1>0, <4>1 DEF JobType
    <3>2. Concludes(p, job[p].written)
      BY <2>3, <3>1
    <3> QED
      BY <2>1, <3>2, ConcludesKeeps
  <2> QED
    BY <1>7, <2>2, <2>3 DEF Wait
<1>8. ASSUME NEW p \in Procs, Appended(p) PROVE Account'
  <2>1. /\ At(p, "append") /\ FileWith(p, "whole") /\ UNCHANGED <<batch, pending, db, relisted>>
        /\ unlisted' = unlisted \cup Glued(p)
        /\ job' = [job EXCEPT ![p].step = "release", ![p].written = TRUE]
    BY <1>8 DEF Appended
  <2>2. /\ job'[p].step = "release" /\ job'[p].early = job[p].early /\ job'[p].written
        /\ \A q \in Procs \ {p} : job'[q] = job[q]
    BY <1>0, <2>1 DEF JobType
  <2> QED
    BY <2>1, <2>2, WriteKeeps
<1>9. ASSUME NEW p \in Procs, AppendFails(p) PROVE Account'
  <2>1. PICK end \in {"none", "cut", "open", "whole"} :
          /\ FileWith(p, end)
          /\ relisted' = IF end \in {"open", "whole"} THEN relisted \cup Writing(p) ELSE relisted
          /\ unlisted' = IF end = "none" THEN unlisted ELSE unlisted \cup Glued(p)
    BY <1>9 DEF AppendFails
  <2>2. At(p, "append") /\ Goes(p, "release") /\ UNCHANGED <<batch, pending, db>>
    BY <1>9 DEF AppendFails
  <2>3. /\ job'[p].step = "release" /\ \A q \in Procs \ {p} : job'[q] = job[q]
        /\ job'[p].early = job[p].early /\ job'[p].written = job[p].written
    BY <1>0, <2>2, GoesTyped DEF Steps
  <2>4. ~job[p].written
    BY <2>2 DEF Account, WrittenIsListed, At
  <2> QED
    BY <2>1, <2>2, <2>3, <2>4, WriteKeeps
<1>10. ASSUME NEW p \in Procs, Release(p) PROVE Account'
  <2>1. /\ UNCHANGED <<lines, tail, relisted, db>> /\ Lists(p) /\ Concludes(p, job[p].written)
    BY <1>10 DEF Release, At, Lists
  <2> QED
    BY <2>1, ConcludesKeeps
<1> QED
  BY <1>1, <1>2, <1>3, <1>4, <1>5, <1>6, <1>7, <1>8, <1>9, <1>10 DEF Next

\* The history is about records that were captured.
HistoryTyped == unlisted \subseteq captured /\ relisted \subseteq captured

LEMMA HistoryStays == Types /\ Account /\ HistoryTyped /\ [Next]_vars => HistoryTyped'
<1> SUFFICES ASSUME Types, Account, HistoryTyped, [Next]_vars PROVE HistoryTyped'
  OBVIOUS
<1>0. /\ db \subseteq captured /\ \A p \in Procs : batch[p] \subseteq captured
      /\ \A p \in Procs : pending[p] \in Seq(SUBSET Records) /\ Len(pending[p]) <= MaxPending
      /\ lines \in Seq(Hashes) /\ MaxPending \in Nat \ {0}
  BY ManifestAssumption DEF Types
<1>1. \A p \in Procs : ToList(p) \subseteq captured
  BY <1>0 DEF Account, ListsAreStored
<1>2. \A p \in Procs : Lists(p) => Writing(p) \subseteq captured
  BY <1>1, WritingIsToList
<1>3. \A p \in Procs : Lists(p) => Glued(p) \subseteq captured
  <2> SUFFICES ASSUME NEW p \in Procs, Lists(p) PROVE Glued(p) \subseteq captured
    OBVIOUS
  <2>1. tail = "open" => Last(Last(lines)) \subseteq captured
    <3> SUFFICES ASSUME tail = "open" PROVE Last(Last(lines)) \subseteq captured
      OBVIOUS
    <3>1. lines # << >>
      BY DEF Account, OpenIsOwed
    <3>2. Len(lines) \in DOMAIN lines
      BY <1>0, <3>1
    <3>3. Last(Last(lines)) \subseteq Listed
      BY <3>2 DEF Listed, Last
    <3> QED
      BY <1>0, <3>3 DEF Account, ListedIsStored
  <2> QED
    BY <1>2, <2>1 DEF Glued
<1>4. \A p \in Procs : Dropped(p) \subseteq captured
  <2> SUFFICES ASSUME NEW p \in Procs, Len(pending[p]) >= MaxPending
               PROVE  Head(pending[p]) \subseteq captured
    BY DEF Dropped
  <2>1. pending[p] # << >>
    <3>1. Len(pending[p]) # 0
      BY <1>0
    <3> QED
      BY <3>1
  <2>2. Head(pending[p]) \subseteq Queued(p)
    BY <1>0, <2>1, TailQueue DEF Queued
  <2> QED
    BY <1>1, <2>2 DEF ToList
<1>5. ASSUME NEW p \in Procs, NEW w, Concludes(p, w)
      PROVE  unlisted' \subseteq captured
  BY <1>4, <1>5 DEF Concludes, HistoryTyped
<1>6. CASE UNCHANGED vars
  BY <1>6 DEF vars, history, HistoryTyped
<1>7. CASE Ages
  BY <1>7 DEF Ages, history, HistoryTyped
<1>8. ASSUME NEW p \in Procs,
             Record(p) \/ FlushBegins(p) \/ Stored(p) \/ TryCreate(p) \/ Stat(p) \/ TakeOver(p)
                 \/ ReadLast(p) \/ Start(p)
      PROVE  HistoryTyped'
  <2>1. UNCHANGED <<unlisted, relisted>> /\ captured \subseteq captured'
    BY <1>8 DEF Record, FlushBegins, Stored, TryCreate, Stat, TakeOver, ReadLast, Start, history
  <2> QED
    BY <2>1 DEF HistoryTyped
<1>9. ASSUME NEW p \in Procs, InsertFails(p) PROVE HistoryTyped'
  <2>1. /\ captured' = captured /\ relisted' = relisted
        /\ \E landed \in SUBSET (batch[p] \ db) : unlisted' = unlisted \cup landed
    BY <1>9 DEF InsertFails
  <2> QED
    BY <1>0, <2>1 DEF HistoryTyped
<1>10. ASSUME NEW p \in Procs, Wait(p) PROVE HistoryTyped'
  BY <1>5, <1>10 DEF Wait, HistoryTyped
<1>11. ASSUME NEW p \in Procs, Appended(p) PROVE HistoryTyped'
  <2>1. /\ captured' = captured /\ relisted' = relisted /\ unlisted' = unlisted \cup Glued(p)
        /\ Lists(p)
    BY <1>11 DEF Appended, At, Lists
  <2> QED
    BY <1>3, <2>1 DEF HistoryTyped
<1>12. ASSUME NEW p \in Procs, AppendFails(p) PROVE HistoryTyped'
  <2>1. /\ captured' = captured /\ relisted' \subseteq relisted \cup Writing(p)
        /\ unlisted' \subseteq unlisted \cup Glued(p) /\ Lists(p)
    BY <1>12 DEF AppendFails, At, Lists
  <2> QED
    BY <1>2, <1>3, <2>1 DEF HistoryTyped
<1>13. ASSUME NEW p \in Procs, Release(p) PROVE HistoryTyped'
  BY <1>5, <1>13 DEF Release, HistoryTyped
<1>14. ASSUME NEW p \in Procs, Crash(p) PROVE HistoryTyped'
  <2>1. /\ captured' = captured /\ relisted' = relisted
        /\ \E landed \in SUBSET batch[p] : unlisted' = unlisted \cup landed \cup ToList(p)
    BY <1>14 DEF Crash
  <2> QED
    BY <1>0, <1>1, <2>1 DEF HistoryTyped
<1> QED
  BY <1>6, <1>7, <1>8, <1>9, <1>10, <1>11, <1>12, <1>13, <1>14 DEF Next

-----------------------------------------------------------------------------
(* The theorems *)

\* The inductive invariant: the lock, the chain of lines, and the account of records.
THEOREM ManifestInvariant == Spec => []ManifestInv
<1>1. Init => ManifestInv
  BY InitTypes, InitChain, InitAccount DEF ManifestInv
<1>2. ManifestInv /\ [Next]_vars => ManifestInv'
  BY TypesStay, ChainStays, AccountStays DEF ManifestInv
<1> QED
  BY <1>1, <1>2, PTL DEF Spec

\* However many processes append to the manifest and die over it, its chain breaks only
\* after somebody got past the lock.
THEOREM AlwaysForksNeedABreach == Spec => []ForksNeedABreach
<1>1. ManifestInv => ForksNeedABreach
  BY DEF ManifestInv, ChainInv
<1> QED
  BY <1>1, ManifestInvariant, PTL

\* As long as nobody got past the lock, one process at a time takes itself for its holder.
THEOREM OneWriterWithoutBreach ==
    Spec => [](breach = {} => \A p, q \in Procs : Under(p) /\ Under(q) => p = q)
<1>1. ManifestInv => (breach = {} => \A p, q \in Procs : Under(p) /\ Under(q) => p = q)
  BY OwnerIsAlone DEF ManifestInv, ChainInv
<1> QED
  BY <1>1, ManifestInvariant, PTL

\* With or without exclusion, every stored record has its line, or will, or has been given
\* up, and none has two unless a write was wrongly taken to have failed.
THEOREM AlwaysManifestAccounts == Spec => []ManifestAccounts
<1>1. ManifestInv => ManifestAccounts
  BY DEF ManifestInv, Account, ManifestAccounts
<1> QED
  BY <1>1, ManifestInvariant, PTL

\* A line is only ever of stored records: the manifest claims nothing the database has not.
THEOREM AlwaysListedIsStored == Spec => []ListedIsStored
<1>1. ManifestInv => ListedIsStored
  BY DEF ManifestInv, Account
<1> QED
  BY <1>1, ManifestInvariant, PTL

\* The state is well formed: the queue is never longer than it may be, is not empty while
\* a batch of it is written, and all that is kept about is captured.
THEOREM ManifestTyped == Spec => []ForensicManifestTypeOK
<1>1. Init => HistoryTyped
  BY DEF Init, HistoryTyped
<1>2. ManifestInv /\ HistoryTyped /\ [Next]_vars => HistoryTyped'
  BY HistoryStays DEF ManifestInv
<1>3. ManifestInv /\ HistoryTyped => ForensicManifestTypeOK
  <2> SUFFICES ASSUME ManifestInv, HistoryTyped PROVE ForensicManifestTypeOK
    OBVIOUS
  <2>0. Types /\ ListsAreStored
    BY DEF ManifestInv, Account
  <2>1. pending \in [Procs -> Seq(SUBSET captured)]
    <3>1. ASSUME NEW p \in Procs PROVE pending[p] \in Seq(SUBSET captured)
      <4>1. Queued(p) \subseteq captured
        BY <2>0 DEF Types, ListsAreStored, ToList
      <4>2. pending[p] \in Seq(SUBSET Records)
        BY <2>0 DEF Types
      <4>3. \A i \in DOMAIN pending[p] : pending[p][i] \in SUBSET captured
        BY <4>1 DEF Queued, Range
      <4> QED
        BY <4>2, <4>3
    <3> QED
      BY <2>0, <3>1 DEF Types
  <2>2. buffer \in [Procs -> SUBSET captured] /\ batch \in [Procs -> SUBSET captured]
    BY <2>0 DEF Types
  <2> QED
    BY <2>0, <2>1, <2>2 DEF Types, HistoryTyped, ForensicManifestTypeOK, JobType, Steps
<1> QED
  BY <1>1, <1>2, <1>3, ManifestInvariant, PTL DEF Spec
=============================================================================
