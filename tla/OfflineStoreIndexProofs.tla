---------------------- MODULE OfflineStoreIndexProofs ----------------------
(***************************************************************************)
(* The index that offline_store.c keeps in RAM is what a scan of the       *)
(* directory would give, and Flash stays within its capacity, for every    *)
(* set of sequence identifiers and every capacity.  The proof follows one  *)
(* medium through a put: until the index is brought up to date, the        *)
(* directory may already hold the file of the record that is being put.    *)
(* That a peek returns the lowest stored record follows from the index.    *)
(***************************************************************************)
EXTENDS OfflineStoreProofs

\* The record names on a medium, whether it answers or not.
Names(d) == d.files \cup d.torn

\* The least element of a set is the one find_oldest_in() returns.
LEMMA LeastIsOldest ==
  ASSUME NEW S, S \subseteq Seqs, NEW x, IsLeast(x, S)
  PROVE  FindOldest(S) = x
<1>1. S \subseteq Nat /\ S # {}
  BY SeqsAssumption DEF IsLeast
<1>2. \A y \in S : IsLeast(y, S) => y = x
  BY <1>1 DEF IsLeast
<1>3. \E y \in S : IsLeast(y, S)
  BY DEF IsLeast
<1> QED
  BY <1>1, <1>2, <1>3 DEF FindOldest

\* find_oldest_in() returns the least record name.
LEMMA OldestIsLeast ==
  ASSUME NEW S, S \subseteq Seqs
  PROVE  S # {} => IsLeast(FindOldest(S), S)
<1> SUFFICES ASSUME S # {} PROVE IsLeast(FindOldest(S), S)
  OBVIOUS
<1>1. PICK x \in S : IsLeast(x, S)
  BY LeastExists
<1> QED
  BY <1>1, LeastIsOldest

\* Directories are finite, and so are their parts.
LEMMA DirFinite ==
  ASSUME NEW S, S \subseteq Seqs
  PROVE  /\ IsFiniteSet(S) /\ Cardinality(S) \in Nat
         /\ Cardinality(S) = 0 <=> S = {}
BY SeqsAssumption, FS_Subset, FS_CardinalityType, FS_EmptySet

(***************************************************************************)
(* The index is exact but for a file of record s: it may be there and is   *)
(* not counted, and the oldest is the lowest of the others, or it is s.    *)
(* Where an evicting put stored a late record, it is just one of them.     *)
(***************************************************************************)
ExactBut(d, s, late_) ==
  LET rest == Dir(d) \ {s}
  IN /\ d.count = Cardinality(rest)
     /\ d.oldest = None <=> rest = {}
     /\ d.oldest # None => d.oldest \in Dir(d)
     /\ ~late_ => \A t \in rest : d.oldest <= t

\* The index is exact.
Exact(d, late_) ==
  /\ d.count = Cardinality(Dir(d))
  /\ d.oldest = None <=> Dir(d) = {}
  /\ d.oldest # None => d.oldest \in Dir(d)
  /\ ~late_ => \A t \in Dir(d) : d.oldest <= t

\* Without such a file this is exactness.
LEMMA NoFileExact ==
  ASSUME NEW d \in Medium, NEW s, s \notin Dir(d), NEW b \in BOOLEAN
  PROVE  ExactBut(d, s, b) <=> Exact(d, b)
<1>1. Dir(d) \ {s} = Dir(d)
  OBVIOUS
<1> QED
  BY <1>1 DEF ExactBut, Exact

\* load_store_state() makes the index exact.
LEMMA LoadExact ==
  ASSUME NEW d \in Medium, NEW b \in BOOLEAN
  PROVE  LET e == LoadStoreState(d)
         IN /\ e \in Medium /\ e.io = d.io /\ Exact(e, b)
            /\ e.files = d.files /\ e.torn = d.torn
            /\ e.unsynced = d.unsynced
<1> DEFINE e == LoadStoreState(d)
<1>1. e \in Medium
  BY LoadKeeps DEF Keeps
<1>2. /\ e.io = d.io /\ e.files = d.files /\ e.torn = d.torn
      /\ e.unsynced = d.unsynced
      /\ e.count = Cardinality(Dir(d)) /\ e.oldest = FindOldest(Dir(d))
  BY DEF LoadStoreState, Medium
<1>3. Dir(e) = Dir(d)
  BY <1>2 DEF Dir
<1> HIDE DEF e
<1>4. Dir(d) \subseteq Seqs
  BY DirType
<1>5. Dir(d) = {} => Exact(e, b)
  <2>1. Dir(d) = {} => e.oldest = None
    BY <1>2 DEF FindOldest
  <2> QED
    BY <1>2, <1>3, <2>1 DEF Exact
<1>6. Dir(d) # {} => Exact(e, b)
  <2>1. Dir(d) # {} => IsLeast(e.oldest, Dir(d))
    BY <1>2, <1>4, OldestIsLeast
  <2>2. Dir(d) # {} => e.oldest # None
    BY <1>4, <2>1, NoneIsNoSeq DEF IsLeast
  <2> QED
    BY <1>2, <1>3, <2>1, <2>2 DEF Exact, IsLeast
<1>7. Exact(e, b)
  BY <1>5, <1>6
<1> QED
  BY <1>1, <1>2, <1>7 DEF e

\* What remove_oldest() makes of a medium when it unlinks a file.
LEMMA RemoveOldestFields ==
  ASSUME NEW d \in Medium, CanRemoveOldest(d)
  PROVE  LET e    == RemoveOldest(d)
             rest == Dir(d) \ {d.oldest}
         IN /\ e \in Medium /\ e.io = d.io
            /\ e.files = d.files \ {d.oldest} /\ e.torn = d.torn \ {d.oldest}
            /\ Dir(e) = rest
            /\ e.count = d.count - 1
            /\ e.oldest = IF d.count - 1 <= 0 THEN None
                          ELSE IF d.oldest + 1 \in rest THEN d.oldest + 1
                          ELSE FindOldest(rest)
<1> DEFINE o == d.oldest
           u == Unlink(d, o)
           r == [u EXCEPT !.count = @ - 1]
           e == AdvanceOldest(r, o)
<1>0. /\ u \in Medium /\ u.io = d.io /\ u.count = d.count
      /\ u.files = d.files \ {o} /\ u.torn = d.torn \ {o}
  BY DEF Unlink, Medium
<1>1. /\ r \in Medium /\ r.io = d.io
      /\ r.files = d.files \ {o} /\ r.torn = d.torn \ {o}
      /\ r.count = d.count - 1
  <2> HIDE DEF u
  <2> QED
    BY <1>0 DEF Medium
<1>2. Dir(r) = Dir(d) \ {o}
  BY <1>1 DEF Dir
<1>3. RemoveOldest(d) = e
  BY DEF RemoveOldest, CanRemoveOldest, Medium
<1> HIDE DEF r
<1>4. o \in Seqs
  BY DirType DEF CanRemoveOldest
<1>5. e \in Medium
  BY <1>1, <1>4, AdvanceKeeps DEF Keeps
<1>6. /\ e.io = r.io /\ e.files = r.files /\ e.torn = r.torn
      /\ e.count = r.count
      /\ e.oldest = IF r.count <= 0 THEN None
                    ELSE IF o + 1 \in Dir(r) THEN o + 1
                    ELSE FindOldest(Dir(r))
  BY <1>1 DEF AdvanceOldest, Medium
<1>7. Dir(e) = Dir(r)
  BY <1>6 DEF Dir
<1> QED
  BY <1>1, <1>2, <1>3, <1>5, <1>6, <1>7

\* remove_oldest() keeps an index exact, but for the same file.
LEMMA RemoveOldestExact ==
  ASSUME NEW d \in Medium, NEW s, NEW b \in BOOLEAN, d.io, d.oldest # s,
         ExactBut(d, s, b)
  PROVE  LET e == RemoveOldest(d)
         IN /\ e \in Medium /\ e.io
            /\ ExactBut(e, s, b)
            /\ e.files \subseteq d.files
            /\ s \in d.torn => s \in e.torn
<1>1. CASE ~CanRemoveOldest(d)
  <2>1. d.count = Cardinality(Dir(d) \ {s}) /\ Dir(d) \ {s} \subseteq Seqs
    BY DirType DEF ExactBut
  <2>2. d.count <= 0 => d.oldest = None
    BY <2>1, DirFinite DEF ExactBut
  <2>3. d.count > 0 => d.oldest # None
    BY <2>1, DirFinite DEF ExactBut
  <2>4. d.oldest # None => d.oldest \in Dir(d)
    BY DEF ExactBut
  <2>5. d.oldest = None
    BY <1>1, <2>1, <2>2, <2>3, <2>4, DirFinite DEF CanRemoveOldest
  <2>6. RemoveOldest(d) = d
    BY <2>5 DEF RemoveOldest
  <2> QED
    BY <2>6
<1>2. CASE CanRemoveOldest(d)
  <2> DEFINE e    == RemoveOldest(d)
             o    == d.oldest
             rest == Dir(d) \ {s}
  <2>1. /\ e \in Medium /\ e.io = d.io
        /\ e.files = d.files \ {o} /\ e.torn = d.torn \ {o}
        /\ Dir(e) = Dir(d) \ {o}
        /\ e.count = d.count - 1
        /\ e.oldest = IF d.count - 1 <= 0 THEN None
                      ELSE IF o + 1 \in Dir(d) \ {o} THEN o + 1
                      ELSE FindOldest(Dir(d) \ {o})
    BY <1>2, RemoveOldestFields
  <2>2. o \in rest /\ rest \subseteq Seqs /\ Dir(d) \subseteq Seqs
    BY <1>2, DirType DEF CanRemoveOldest
  <2>3. Dir(e) \ {s} = rest \ {o}
    BY <2>1
  <2>4. d.count = Cardinality(rest)
    BY DEF ExactBut
  <2>6. ~b => \A t \in rest : o <= t
    BY DEF ExactBut
  <2> HIDE DEF e, o, rest
  <2>5. e.count = Cardinality(rest \ {o}) /\ e.count \in Nat
    <3>1. IsFiniteSet(rest)
      BY <2>2, DirFinite
    <3>2. Cardinality(rest \ {o}) = Cardinality(rest) - 1
      BY <2>2, <3>1, FS_RemoveElement
    <3>3. Cardinality(rest \ {o}) \in Nat
      BY <2>2, DirFinite
    <3> QED
      BY <2>1, <2>4, <3>2, <3>3
  <2>7. e.count = 0 <=> rest \ {o} = {}
    BY <2>2, <2>5, DirFinite
  <2>8. e.count = 0 => ExactBut(e, s, b)
    <3> SUFFICES ASSUME e.count = 0 PROVE ExactBut(e, s, b)
      OBVIOUS
    <3>1. e.oldest = None
      BY <2>1
    <3> QED
      BY <2>3, <2>5, <2>7, <3>1 DEF ExactBut
  <2>9. e.count # 0 => ExactBut(e, s, b)
    <3> SUFFICES ASSUME e.count # 0 PROVE ExactBut(e, s, b)
      OBVIOUS
    <3>1. Dir(e) # {} /\ Dir(e) \subseteq Seqs /\ Dir(e) \subseteq Nat
      BY <2>1, <2>2, <2>3, <2>7, SeqsAssumption
    <3>2. IsLeast(FindOldest(Dir(e)), Dir(e))
      BY <3>1, OldestIsLeast
    <3>3. e.oldest = IF o + 1 \in Dir(e) THEN o + 1 ELSE FindOldest(Dir(e))
      <4>1. d.count \in Int
        BY DEF Medium
      <4>2. ~(d.count - 1 <= 0)
        BY <2>1, <2>5, <4>1
      <4> DEFINE D == Dir(d) \ {o}
      <4>3. Dir(e) = D
        BY <2>1
      <4>4. e.oldest = IF d.count - 1 <= 0 THEN None
                       ELSE IF o + 1 \in D THEN o + 1 ELSE FindOldest(D)
        BY <2>1 DEF o
      <4> HIDE DEF D
      <4> QED
        BY <4>2, <4>3, <4>4
    <3>4. e.oldest \in Dir(e) /\ e.oldest # None
      BY <3>1, <3>2, <3>3, NoneIsNoSeq DEF IsLeast
    <3>5. ~b => \A t \in rest \ {o} : e.oldest <= t
      <4>1. SUFFICES ASSUME ~b, NEW t \in rest \ {o} PROVE e.oldest <= t
        OBVIOUS
      <4>2. t \in Nat /\ o \in Nat /\ o <= t /\ t # o /\ t \in Dir(e)
        BY <4>1, <2>2, <2>3, <2>6, SeqsAssumption
      <4>3. o + 1 <= t
        BY <4>2
      <4> QED
        BY <3>2, <3>3, <4>2, <4>3 DEF IsLeast
    <3>6. rest \ {o} # {}
      BY <2>7
    <3> QED
      BY <2>3, <2>5, <3>4, <3>5, <3>6 DEF ExactBut
  <2> QED
    BY <2>1, <2>8, <2>9 DEF e, o
<1> QED
  BY <1>1, <1>2

\* write_record() keeps an index exact, but for the file it writes.
LEMMA WriteExact ==
  ASSUME NEW d \in Medium, NEW s \in Seqs, NEW w \in AnyOutcome,
         NEW b \in BOOLEAN, d.io, ExactBut(d, s, b)
  PROVE  LET e == WriteRecord(d, s, w)
         IN /\ e \in Medium /\ e.io /\ e.oldest = d.oldest /\ e.count = d.count
            /\ ExactBut(e, s, b)
            /\ Reported(w) => s \in Dir(e)
            /\ w = "cut" => s \in e.torn
            /\ ~Reported(w) => e.files \subseteq d.files
<1> DEFINE e == WriteRecord(d, s, w)
<1>1. /\ e \in Medium /\ e.io = d.io
      /\ e.oldest = d.oldest /\ e.count = d.count
      /\ e.files \ {s} = d.files \ {s} /\ e.torn \ {s} = d.torn \ {s}
      /\ Reported(w) => s \in e.files
      /\ w = "cut" => s \in e.torn
      /\ ~Reported(w) => e.files \subseteq d.files
      /\ d.files \cup d.torn \subseteq e.files \cup e.torn
  BY DEF WriteRecord, Reported, AnyOutcome, Medium
<1> HIDE DEF e
<1>2. /\ Dir(e) \ {s} = Dir(d) \ {s} /\ Dir(d) \subseteq Dir(e)
      /\ Reported(w) => s \in Dir(e)
  BY <1>1 DEF Dir
<1>3. ExactBut(e, s, b)
  BY <1>1, <1>2 DEF ExactBut
<1> QED
  BY <1>1, <1>2, <1>3 DEF e

\* The index after a successful write is exact.
LEMMA IndexedExact ==
  ASSUME NEW d \in Medium, NEW s \in Seqs, NEW b \in BOOLEAN,
         s \in Dir(d), ExactBut(d, s, b)
  PROVE  LET e == Indexed(d, s)
         IN /\ e \in Medium /\ e.io = d.io /\ Dir(e) = Dir(d)
            /\ e.torn = d.torn /\ e.files = d.files
            /\ e.count = d.count + 1
            /\ Exact(e, b)
<1> DEFINE e    == Indexed(d, s)
           rest == Dir(d) \ {s}
<1>1. /\ e \in Medium /\ e.io = d.io /\ e.torn = d.torn /\ e.files = d.files
      /\ e.count = d.count + 1
      /\ e.oldest = IF d.oldest = None \/ s < d.oldest THEN s ELSE d.oldest
  BY IndexedKeeps DEF Indexed, Medium
<1>2. Dir(e) = Dir(d)
  BY <1>1 DEF Dir
<1> HIDE DEF e, rest
<1>3. d.count = Cardinality(rest) /\ Dir(d) \subseteq Seqs
  BY DirType DEF ExactBut, rest
<1>4. rest \subseteq Seqs /\ Dir(d) = rest \cup {s} /\ s \notin rest
  BY <1>3 DEF rest
<1>5. Cardinality(Dir(d)) = d.count + 1
  BY <1>3, <1>4, DirFinite, FS_AddElement
<1>6. /\ d.oldest = None <=> rest = {}
      /\ d.oldest # None => d.oldest \in Dir(d)
      /\ ~b => \A t \in rest : d.oldest <= t
  BY DEF ExactBut, rest
<1>7. Dir(d) \subseteq Nat /\ s \in Nat /\ s # None
  BY <1>3, NoneIsNoSeq, SeqsAssumption
<1>8. e.oldest \in Dir(d) /\ e.oldest # None
  BY <1>1, <1>6, <1>7
<1>9. ~b => \A t \in Dir(d) : e.oldest <= t
  <2>1. SUFFICES ASSUME ~b, NEW t \in Dir(d) PROVE e.oldest <= t
    OBVIOUS
  <2>2. t \in Nat /\ e.oldest \in Nat /\ s \in Nat
    BY <1>7, <1>8
  <2>3. CASE t = s
    BY <1>1, <1>6, <1>7, <2>2, <2>3
  <2>4. CASE t \in rest
    <3>1. d.oldest \in Nat /\ d.oldest # None /\ d.oldest <= t
      BY <1>6, <1>7, <2>1, <2>4
    <3> QED
      BY <1>1, <2>2, <3>1
  <2> QED
    BY <1>4, <2>3, <2>4
<1>10. Exact(e, b)
  BY <1>1, <1>2, <1>5, <1>8, <1>9 DEF Exact
<1> QED
  BY <1>1, <1>2, <1>10 DEF e

\* In the branch that evicts it is exact if the record is not a late one.
LEMMA IndexedIfFirstExact ==
  ASSUME NEW d \in Medium, NEW s \in Seqs, NEW b \in BOOLEAN,
         NEW b2 \in BOOLEAN, s \in Dir(d), ExactBut(d, s, b),
         ~b2 => ~b /\ ~\E t \in Dir(d) : s < t
  PROVE  LET e == IndexedIfFirst(d, s)
         IN /\ e \in Medium /\ e.io = d.io /\ Dir(e) = Dir(d)
            /\ e.torn = d.torn /\ e.files = d.files
            /\ e.count = d.count + 1
            /\ Exact(e, b2)
<1> DEFINE e    == IndexedIfFirst(d, s)
           rest == Dir(d) \ {s}
<1>1. /\ e \in Medium /\ e.io = d.io /\ e.torn = d.torn /\ e.files = d.files
      /\ e.count = d.count + 1
      /\ e.oldest = IF d.oldest = None THEN s ELSE d.oldest
  BY IndexedKeeps DEF IndexedIfFirst, Medium
<1>2. Dir(e) = Dir(d)
  BY <1>1 DEF Dir
<1> HIDE DEF e, rest
<1>3. d.count = Cardinality(rest) /\ Dir(d) \subseteq Seqs
  BY DirType DEF ExactBut, rest
<1>4. rest \subseteq Seqs /\ Dir(d) = rest \cup {s} /\ s \notin rest
  BY <1>3 DEF rest
<1>5. Cardinality(Dir(d)) = d.count + 1
  BY <1>3, <1>4, DirFinite, FS_AddElement
<1>6. /\ d.oldest = None <=> rest = {}
      /\ d.oldest # None => d.oldest \in Dir(d)
      /\ ~b => \A t \in rest : d.oldest <= t
  BY DEF ExactBut, rest
<1>7. Dir(d) \subseteq Nat /\ s \in Nat /\ s # None
  BY <1>3, NoneIsNoSeq, SeqsAssumption
<1>8. e.oldest \in Dir(d) /\ e.oldest # None
  BY <1>1, <1>6, <1>7
<1>9. ~b2 => \A t \in Dir(d) : e.oldest <= t
  <2>1. SUFFICES ASSUME ~b2, NEW t \in Dir(d) PROVE e.oldest <= t
    OBVIOUS
  <2>2. t \in Nat /\ e.oldest \in Nat /\ s \in Nat
    BY <1>7, <1>8
  <2>3. ~b /\ ~(s < e.oldest)
    BY <1>8, <2>1
  <2>4. CASE t = s
    BY <2>2, <2>3, <2>4
  <2>5. CASE t \in rest
    <3>1. d.oldest # None /\ d.oldest <= t
      BY <1>6, <2>3, <2>5
    <3> QED
      BY <1>1, <3>1
  <2> QED
    BY <1>4, <2>4, <2>5
<1>10. Exact(e, b2)
  BY <1>1, <1>2, <1>5, <1>8, <1>9 DEF Exact
<1> QED
  BY <1>1, <1>2, <1>10 DEF e

\* Medium e came from medium d: it has no names but those of d and s.
Follows(d, e, s) ==
  e \in Medium /\ e.io = d.io /\ Names(e) \subseteq Names(d) \cup {s}

\* remove_oldest_in() brings no new name.
LEMMA RemoveOldestFollows ==
  ASSUME NEW d \in Medium, NEW s
  PROVE  Follows(d, RemoveOldest(d), s)
<1>1. CASE d.count <= 0 \/ d.oldest = None
  BY <1>1 DEF RemoveOldest, Follows
<1>2. CASE ~(d.count <= 0 \/ d.oldest = None) /\ d.oldest \notin Dir(d)
  <2>1. RemoveOldest(d) = LoadStoreState(d)
    BY <1>2 DEF RemoveOldest
  <2> QED
    BY <2>1, LoadExact DEF Follows, Names
<1>3. CASE CanRemoveOldest(d)
  <2> DEFINE e == RemoveOldest(d)
  <2>1. /\ e \in Medium /\ e.io = d.io
        /\ e.files = d.files \ {d.oldest} /\ e.torn = d.torn \ {d.oldest}
    BY <1>3, RemoveOldestFields
  <2> HIDE DEF e
  <2>2. Follows(d, e, s)
    BY <2>1 DEF Follows, Names
  <2> QED
    BY <2>2 DEF e
<1> QED
  BY <1>1, <1>2, <1>3 DEF CanRemoveOldest, Medium

\* Writing the file of record s brings no name but s.
LEMMA WriteFollows ==
  ASSUME NEW d \in Medium, NEW s \in Seqs, NEW w \in AnyOutcome
  PROVE  Follows(d, WriteRecord(d, s, w), s)
BY DEF WriteRecord, AnyOutcome, Follows, Names, Medium

\* Neither does bringing the index up to date.
LEMMA IndexedFollows ==
  ASSUME NEW d \in Medium, NEW s \in Seqs
  PROVE  Follows(d, Indexed(d, s), s) /\ Follows(d, IndexedIfFirst(d, s), s)
<1> DEFINE e == Indexed(d, s)
           f == IndexedIfFirst(d, s)
<1>1. e \in Medium /\ f \in Medium
  BY IndexedKeeps
<1>2. /\ e.io = d.io /\ e.files = d.files /\ e.torn = d.torn
      /\ f.io = d.io /\ f.files = d.files /\ f.torn = d.torn
  BY DEF Indexed, IndexedIfFirst, Medium
<1> HIDE DEF e, f
<1>3. Follows(d, e, s) /\ Follows(d, f, s)
  BY <1>1, <1>2 DEF Follows, Names
<1> QED
  BY <1>3 DEF e, f
-----------------------------------------------------------------------------
\* Every record name on a medium was handed to offline_store_put().
NamesHanded == \A m \in Media : Names(store[m]) \subseteq handed

\* A card that answers was mounted at boot.
CardMounted == store["tf"].io => up /\ tfMounted

\* IndexExact, in the form that a step preserves.
AllExact ==
  up /\ ragged # "stale" =>
    \A m \in Media : store[m].io => Exact(store[m], late)

IndexInv == TypeOK /\ NamesHanded /\ CardMounted /\ AllExact /\ FlashBounded

\* The parts that say where names come from, over a put of s.
LEMMA PutNames ==
  ASSUME NamesHanded, CardMounted, NEW s,
         UNCHANGED <<tfMounted, up>>,
         handed' = handed \cup {s},
         \A m \in Media : Follows(store[m], store'[m], s)
  PROVE  NamesHanded' /\ CardMounted'
BY DEF NamesHanded, CardMounted, Follows, Media

\* A new record has no file yet.
LEMMA OfferedIsNew ==
  ASSUME NamesHanded, NEW s, Offered(s), NEW m \in Media
  PROVE  s \notin store[m].files /\ s \notin store[m].torn
         /\ s \notin Dir(store[m])
BY DEF NamesHanded, Offered, Names, Dir

\* The put that Flash takes.
LEMMA PutFlashIndex ==
  ASSUME IndexInv, NEW s \in Seqs, PutFlash(s), TypeOK'
  PROVE  IndexInv'
<1>0. PICK x \in {"ok", "unsynced"} :
        store' = [store EXCEPT !["flash"] = Indexed(WriteRecord(@, s, x), s)]
  BY DEF PutFlash
<1> DEFINE d == store["flash"]
           w == WriteRecord(d, s, x)
           e == Indexed(w, s)
<1>1. d \in Medium /\ store["tf"] \in Medium /\ late \in BOOLEAN
  BY DEF IndexInv, TypeOK, Media
<1>2. s \notin Dir(d)
  BY OfferedIsNew DEF IndexInv, PutFlash, Media
<1>good. x \in AnyOutcome /\ Reported(x)
  BY DEF AnyOutcome, Reported
<1>3. Follows(d, w, s)
  BY <1>1, <1>good, WriteFollows
<1>4. Follows(d, e, s)
  BY <1>3, IndexedFollows DEF Follows
<1>5. d.io /\ Exact(d, late) => Exact(e, late) /\ e.count = d.count + 1
  <2> SUFFICES ASSUME d.io, Exact(d, late)
               PROVE  Exact(e, late) /\ e.count = d.count + 1
    OBVIOUS
  <2>1. ExactBut(d, s, late)
    BY <1>1, <1>2, NoFileExact
  <2>2. /\ w \in Medium /\ w.count = d.count
        /\ ExactBut(w, s, late) /\ s \in Dir(w)
    BY <1>1, <1>good, <2>1, WriteExact
  <2> HIDE DEF w
  <2>3. Exact(e, late) /\ e.count = w.count + 1
    BY <1>1, <2>2, IndexedExact
  <2> QED
    BY <2>2, <2>3
<1>6. store' = [store EXCEPT !["flash"] = e]
  BY <1>0
<1> HIDE DEF w, e
<1>7. store' = [m \in Media |-> IF m = "flash" THEN e ELSE store[m]]
  BY <1>6 DEF IndexInv, TypeOK
<1>8. store'["flash"] = e /\ store'["tf"] = store["tf"]
  BY <1>7 DEF Media
<1>9. \A m \in Media : Follows(store[m], store'[m], s)
  BY <1>1, <1>4, <1>8 DEF Follows, Media
<1>10. NamesHanded' /\ CardMounted'
  BY <1>9, PutNames DEF IndexInv, PutFlash, Offered
<1>11. AllExact'
  BY <1>4, <1>5, <1>8 DEF IndexInv, AllExact, PutFlash, Follows, Media
<1>12. FlashBounded'
  <2>1. SUFFICES ASSUME ragged = "no"
                 PROVE  Cardinality(Dir(e)) <= MaxRecords
    BY <1>8 DEF FlashBounded, PutFlash
  <2>2. CASE d.io
    <3>1. Exact(d, late)
      BY <2>1, <2>2 DEF IndexInv, AllExact, PutFlash, Offered, Media
    <3>2. Cardinality(Dir(e)) = d.count + 1
      BY <1>5, <2>2, <3>1 DEF Exact
    <3>3. d.count < MaxRecords /\ d.count \in Int
      BY <1>1 DEF PutFlash, Medium
    <3> QED
      BY <3>2, <3>3, MaxRecordsAssumption
  <2>3. CASE ~d.io
    BY <1>4, <2>3, FS_EmptySet, MaxRecordsAssumption DEF Follows, Dir
  <2> QED
    BY <2>2, <2>3
<1> QED
  BY <1>10, <1>11, <1>12 DEF IndexInv

\* What Flash is after a put that it did not take: as it was, or with a file
\* that tells.
LEMMA MissedFollows ==
  ASSUME TypeOK, NEW s \in Seqs, NEW flash \in FlashMissed(s)
  PROVE  /\ Follows(store["flash"], flash, s)
         /\ s \notin flash.torn => flash = store["flash"]
<1> DEFINE d == store["flash"]
           e == WriteRecord(d, s, "cut")
<1>1. d \in Medium
  BY DEF TypeOK, Media
<1>2. Follows(d, e, s)
  BY <1>1, WriteFollows DEF AnyOutcome
<1>3. s \in e.torn
  BY <1>1 DEF WriteRecord, Medium
<1>4. flash \in {d, e}
  BY DEF FlashMissed
<1>5. Follows(d, d, s)
  BY <1>1 DEF Follows
<1> HIDE DEF e
<1> QED
  BY <1>2, <1>3, <1>4, <1>5

\* The put that goes to the card, as far as the card is concerned.
LEMMA PutTfCard ==
  ASSUME NEW card \in Medium, NEW s \in Seqs, NEW b \in BOOLEAN,
         s \notin Names(card),
         NEW w \in AnyOutcome, NEW v \in AnyOutcome
  PROVE  LET full   == card.count >= MaxRecords
             room   == IF full THEN RemoveOldest(card) ELSE card
             first  == WriteRecord(room, s, w)
             retry  == ~Reported(w) /\ CanRemoveOldest(first)
             room2  == IF Reported(w) THEN first ELSE RemoveOldest(first)
             second == IF retry THEN WriteRecord(room2, s, v) ELSE room2
             stored == Reported(w) \/ (retry /\ Reported(v))
             tf     == IF stored THEN Indexed(second, s) ELSE second
         IN /\ Follows(card, tf, s)
            /\ card.io /\ Exact(card, b) /\ s \notin tf.torn => Exact(tf, b)
<1> DEFINE full   == card.count >= MaxRecords
           room   == IF full THEN RemoveOldest(card) ELSE card
           first  == WriteRecord(room, s, w)
           retry  == ~Reported(w) /\ CanRemoveOldest(first)
           room2  == IF Reported(w) THEN first ELSE RemoveOldest(first)
           second == IF retry THEN WriteRecord(room2, s, v) ELSE room2
           stored == Reported(w) \/ (retry /\ Reported(v))
           tf     == IF stored THEN Indexed(second, s) ELSE second
<1>1. Follows(card, tf, s)
  <2>1. Follows(card, room, s)
    BY RemoveOldestFollows DEF Follows
  <2> HIDE DEF room
  <2>2. Follows(room, first, s)
    BY <2>1, WriteFollows DEF Follows
  <2> HIDE DEF first
  <2>3. Follows(first, room2, s)
    BY <2>2, RemoveOldestFollows DEF Follows
  <2> HIDE DEF room2
  <2>4. Follows(room2, WriteRecord(room2, s, v), s)
    BY <2>3, WriteFollows DEF Follows
  <2>5. Follows(room2, second, s)
    BY <2>3, <2>4 DEF Follows
  <2> HIDE DEF second
  <2>6. Follows(second, Indexed(second, s), s) /\ Follows(second, second, s)
    BY <2>5, IndexedFollows DEF Follows
  <2>7. Follows(second, tf, s)
    BY <2>6
  <2> HIDE DEF tf
  <2> QED
    BY <2>1, <2>2, <2>3, <2>5, <2>7 DEF Follows
<1>2. ASSUME card.io, Exact(card, b), s \notin tf.torn PROVE Exact(tf, b)
  <2>1. /\ ExactBut(card, s, b) /\ s \notin card.files /\ s \notin Dir(card)
        /\ card.oldest # s
    <3>1. s \notin card.files /\ s \notin Dir(card)
      BY DEF Names, Dir
    <3>2. ExactBut(card, s, b)
      BY <1>2, <3>1, NoFileExact
    <3>3. card.oldest # s
      BY <3>1, <3>2, NoneIsNoSeq DEF ExactBut
    <3> QED
      BY <3>1, <3>2, <3>3
  <2>2. /\ room \in Medium /\ room.io /\ ExactBut(room, s, b)
        /\ s \notin room.files /\ room.oldest # s
    <3>1. CASE ~full
      BY <1>2, <2>1, <3>1
    <3>2. CASE full
      <4> DEFINE e == RemoveOldest(card)
      <4>1. /\ e \in Medium /\ e.io /\ ExactBut(e, s, b)
            /\ e.files \subseteq card.files
        BY <1>2, <2>1, RemoveOldestExact
      <4>2. Names(e) \subseteq Names(card)
        BY RemoveOldestFollows DEF Follows
      <4> HIDE DEF e
      <4>3. s \notin Dir(e)
        BY <4>2 DEF Names, Dir
      <4>4. e.oldest # s
        BY <4>1, <4>3, NoneIsNoSeq DEF ExactBut
      <4> QED
        BY <2>1, <3>2, <4>1, <4>4 DEF e
    <3> QED
      BY <3>1, <3>2
  <2> HIDE DEF room
  <2>3. /\ first \in Medium /\ first.io /\ first.oldest # s
        /\ ExactBut(first, s, b)
        /\ Reported(w) => s \in Dir(first)
        /\ w = "cut" => s \in first.torn
        /\ ~Reported(w) => s \notin first.files
    BY <2>2, WriteExact
  <2> HIDE DEF first
  <2>4. /\ room2 \in Medium /\ room2.io /\ ExactBut(room2, s, b)
        /\ Reported(w) => s \in Dir(room2)
        /\ ~Reported(w) => s \notin room2.files
    <3>1. CASE Reported(w)
      BY <2>3, <3>1
    <3>2. CASE ~Reported(w)
      BY <2>3, <3>2, RemoveOldestExact
    <3> QED
      BY <3>1, <3>2
  <2> HIDE DEF room2
  <2>5. /\ second \in Medium /\ second.io /\ ExactBut(second, s, b)
        /\ stored => s \in Dir(second)
        /\ ~stored => s \notin second.files
    <3>1. CASE ~retry
      BY <2>4, <3>1
    <3>2. CASE retry
      <4> DEFINE e == WriteRecord(room2, s, v)
      <4>1. /\ e \in Medium /\ e.io /\ ExactBut(e, s, b)
            /\ Reported(v) => s \in Dir(e)
            /\ ~Reported(v) => e.files \subseteq room2.files
        BY <2>4, WriteExact
      <4> HIDE DEF e
      <4>2. second = e /\ ~Reported(w)
        BY <3>2 DEF e
      <4> QED
        BY <2>4, <3>2, <4>1, <4>2
    <3> QED
      BY <3>1, <3>2
  <2> HIDE DEF second, retry
  <2>6. CASE stored
    <3>1. Exact(Indexed(second, s), b)
      BY <2>5, <2>6, IndexedExact
    <3> QED
      BY <2>6, <3>1
  <2>7. CASE ~stored
    <3>1. tf = second
      BY <2>7
    <3>2. s \notin Dir(second)
      BY <1>2, <2>5, <2>7, <3>1 DEF Dir
    <3> QED
      BY <2>5, <3>1, <3>2, NoFileExact
  <2> QED
    BY <2>6, <2>7
<1> QED
  BY <1>1, <1>2

\* The put that goes to the card.
LEMMA PutTfIndex ==
  ASSUME IndexInv, NEW s \in Seqs, PutTf(s), TypeOK'
  PROVE  IndexInv'
<1>1. PICK flash \in FlashMissed(s), tf \in Medium :
        /\ store' = [m \in Media |-> IF m = "flash" THEN flash ELSE tf]
        /\ ragged' = Ragged(s \in flash.torn \/ s \in tf.torn)
        /\ Follows(store["tf"], tf, s)
        /\ store["tf"].io /\ Exact(store["tf"], late) /\ s \notin tf.torn
             => Exact(tf, late)
  <2> DEFINE card  == store["tf"]
             full  == card.count >= MaxRecords
             room  == IF full THEN RemoveOldest(card) ELSE card
             first(w)     == WriteRecord(room, s, w)
             retry(w)     == ~Reported(w) /\ CanRemoveOldest(first(w))
             room2(w)     == IF Reported(w) THEN first(w)
                             ELSE RemoveOldest(first(w))
             second(w, v) == IF retry(w) THEN WriteRecord(room2(w), s, v)
                             ELSE room2(w)
             stored(w, v) == Reported(w) \/ (retry(w) /\ Reported(v))
             tf(w, v)     == IF stored(w, v) THEN Indexed(second(w, v), s)
                             ELSE second(w, v)
  <2>1. PICK flash \in FlashMissed(s), w \in Outcomes(card),
             v \in Outcomes(card) :
          /\ store' = [m \in Media |-> IF m = "flash" THEN flash ELSE tf(w, v)]
          /\ ragged' = Ragged(s \in flash.torn \/ s \in tf(w, v).torn)
    BY DEF PutTf
  <2>2. w \in AnyOutcome /\ v \in AnyOutcome
    BY DEF Outcomes, AnyOutcome
  <2>3. card \in Medium /\ late \in BOOLEAN
    BY DEF IndexInv, TypeOK, Media
  <2>4. s \notin Names(card)
    BY OfferedIsNew DEF IndexInv, PutTf, Media, Names
  <2>5. /\ Follows(card, tf(w, v), s)
        /\ card.io /\ Exact(card, late) /\ s \notin tf(w, v).torn
             => Exact(tf(w, v), late)
    BY <2>2, <2>3, <2>4, PutTfCard
  <2>6. tf(w, v) \in Medium
    BY <2>5 DEF Follows
  <2> HIDE DEF tf, card
  <2> DEFINE answer == tf(w, v)
  <2>7. /\ store' = [m \in Media |-> IF m = "flash" THEN flash ELSE answer]
        /\ ragged' = Ragged(s \in flash.torn \/ s \in answer.torn)
        /\ answer \in Medium /\ Follows(card, answer, s)
        /\ card.io /\ Exact(card, late) /\ s \notin answer.torn
             => Exact(answer, late)
    BY <2>1, <2>5, <2>6
  <2> HIDE DEF answer
  <2> QED
    BY <2>7 DEF card
<1>2. /\ Follows(store["flash"], flash, s)
      /\ s \notin flash.torn => flash = store["flash"]
  BY MissedFollows DEF IndexInv
<1>3. store'["flash"] = flash /\ store'["tf"] = tf
  BY <1>1 DEF Media
<1>4. \A m \in Media : Follows(store[m], store'[m], s)
  BY <1>1, <1>2, <1>3 DEF Media
<1>5. NamesHanded' /\ CardMounted'
  BY <1>4, PutNames DEF IndexInv, PutTf, Offered
<1>6. ragged' # "stale" =>
        /\ ragged' = ragged
        /\ flash = store["flash"] /\ s \notin tf.torn
  BY <1>1, <1>2 DEF Ragged
<1>7. up' = up /\ late' = late
  BY DEF PutTf
<1>8. AllExact'
  <2>1. SUFFICES ASSUME up, ragged' # "stale", NEW m \in Media, store'[m].io
                 PROVE  Exact(store'[m], late)
    BY <1>7 DEF AllExact
  <2>2. \A n \in Media : store[n].io => Exact(store[n], late)
    BY <1>6, <2>1 DEF IndexInv, AllExact
  <2>3. CASE m = "flash"
    BY <1>3, <1>6, <2>1, <2>2, <2>3
  <2>4. CASE m = "tf"
    <3>1. store["tf"].io
      BY <1>1, <1>3, <2>1, <2>4 DEF Follows
    <3>2. Exact(store["tf"], late)
      BY <2>2, <3>1 DEF Media
    <3> QED
      BY <1>1, <1>3, <1>6, <2>1, <2>4, <3>1, <3>2
  <2> QED
    BY <2>3, <2>4 DEF Media
<1>9. FlashBounded'
  BY <1>3, <1>6, <1>7 DEF IndexInv, FlashBounded
<1> QED
  BY <1>5, <1>8, <1>9 DEF IndexInv

\* The put that evicts from Flash.
LEMMA PutEvictingIndex ==
  ASSUME IndexInv, NEW s \in Seqs, PutEvicting(s), TypeOK'
  PROVE  IndexInv'
<1> DEFINE d == store["flash"]
           room(flash, w) == WriteRecord(RemoveOldest(flash), s, w)
           new(flash, w)  == IF Reported(w)
                             THEN IndexedIfFirst(room(flash, w), s)
                             ELSE room(flash, w)
           Puts(flash, w) ==
             /\ store' = [store EXCEPT !["flash"] = new(flash, w)]
             /\ ragged' = Ragged(s \in room(flash, w).torn)
             /\ late' = (late \/ (Reported(w)
                                  /\ \E t \in Dir(room(flash, w)) : s < t))
<1>0. PICK flash \in FlashMissed(s) :
        CanRemoveOldest(flash) /\ \E w \in Outcomes(flash) : Puts(flash, w)
  BY DEF PutEvicting
<1>1. PICK w \in Outcomes(flash) : Puts(flash, w)
  BY <1>0
<1> DEFINE old == RemoveOldest(flash)
           r   == room(flash, w)
           e   == new(flash, w)
<1>2. w \in AnyOutcome
  BY DEF Outcomes, AnyOutcome
<1>3. d \in Medium /\ store["tf"] \in Medium /\ late \in BOOLEAN
  BY DEF IndexInv, TypeOK, Media
<1>4. s \notin d.files /\ s \notin d.torn /\ s \notin Dir(d)
  BY OfferedIsNew DEF IndexInv, PutEvicting, Media
<1>5. flash = d \/ flash = WriteRecord(d, s, "cut")
  BY DEF FlashMissed
<1>6. Follows(d, e, s)
  <2>1. Follows(d, flash, s)
    BY MissedFollows DEF IndexInv
  <2>2. Follows(flash, old, s)
    BY <2>1, RemoveOldestFollows DEF Follows
  <2> HIDE DEF old
  <2>3. Follows(old, r, s)
    BY <1>2, <2>2, WriteFollows DEF old, Follows
  <2>4. Follows(r, e, s)
    BY <2>3, IndexedFollows DEF Follows
  <2> HIDE DEF r, e
  <2> QED
    BY <2>1, <2>2, <2>3, <2>4 DEF Follows
<1>7. ASSUME d.io, Exact(d, late), s \notin r.torn
      PROVE  Exact(e, late') /\ e.count <= d.count
  <2>1. ExactBut(d, s, late) /\ d.oldest # s
    <3>1. ExactBut(d, s, late)
      BY <1>3, <1>4, <1>7, NoFileExact
    <3> QED
      BY <1>4, <3>1, NoneIsNoSeq DEF ExactBut
  <2>2. /\ flash \in Medium /\ flash.io /\ flash.oldest # s
        /\ flash.count = d.count
        /\ ExactBut(flash, s, late) /\ s \notin flash.files
    <3>1. CASE flash = d
      BY <1>3, <1>4, <1>7, <2>1, <3>1
    <3>2. CASE flash = WriteRecord(d, s, "cut")
      <4>1. "cut" \in AnyOutcome /\ ~Reported("cut")
        BY DEF AnyOutcome, Reported
      <4> QED
        BY <1>3, <1>4, <1>7, <2>1, <3>2, <4>1, WriteExact
    <3> QED
      BY <1>5, <3>1, <3>2
  <2>3. /\ old \in Medium /\ old.io /\ ExactBut(old, s, late)
        /\ old.files \subseteq flash.files
    BY <1>3, <2>2, RemoveOldestExact
  <2>4. old.count = flash.count - 1
    BY <1>0, <2>2, RemoveOldestFields
  <2> HIDE DEF old
  <2>5. /\ r \in Medium /\ r.io /\ ExactBut(r, s, late)
        /\ r.count = old.count
        /\ Reported(w) => s \in Dir(r)
        /\ ~Reported(w) => r.files \subseteq old.files
    BY <1>2, <1>3, <2>3, WriteExact DEF old
  <2>6. late' = (late \/ (Reported(w) /\ \E t \in Dir(r) : s < t))
    BY <1>1
  <2>7. late' \in BOOLEAN
    BY DEF TypeOK
  <2>8. d.count \in Int /\ old.count = d.count - 1
    BY <1>3, <2>2, <2>4 DEF Medium
  <2>9. CASE Reported(w)
    <3>1. e = IndexedIfFirst(r, s)
      BY <2>9
    <3> HIDE DEF r, e
    <3>2. s \in Dir(r) /\ (~late' => ~late /\ ~\E t \in Dir(r) : s < t)
      BY <2>5, <2>6, <2>9
    <3>3. Exact(e, late') /\ e.count = r.count + 1
      BY <1>3, <2>5, <2>7, <3>1, <3>2, IndexedIfFirstExact
    <3> QED
      BY <2>5, <2>8, <3>3
  <2>10. CASE ~Reported(w)
    <3>1. e = r
      BY <2>10
    <3> HIDE DEF r, e
    <3>2. late' = late
      BY <1>3, <2>6, <2>10
    <3>3. s \notin Dir(r)
      BY <1>7, <2>2, <2>3, <2>5, <2>10 DEF Dir
    <3>4. Exact(r, late)
      BY <1>3, <2>5, <3>3, NoFileExact
    <3> QED
      BY <2>5, <2>8, <3>1, <3>2, <3>4
  <2> QED
    BY <2>9, <2>10
<1>8. store' = [m \in Media |-> IF m = "flash" THEN e ELSE store[m]]
  BY <1>1 DEF IndexInv, TypeOK
<1>9. ragged' = Ragged(s \in r.torn)
  BY <1>1
<1>10. late => late'
  BY <1>1
<1> HIDE DEF room, new, r, e
<1>11. store'["flash"] = e /\ store'["tf"] = store["tf"]
  BY <1>8 DEF Media
<1>12. \A m \in Media : Follows(store[m], store'[m], s)
  BY <1>3, <1>6, <1>11 DEF Follows, Media
<1>13. NamesHanded' /\ CardMounted'
  BY <1>12, PutNames DEF IndexInv, PutEvicting, Offered
<1>14. ragged' # "stale" => ragged' = ragged /\ s \notin r.torn
  BY <1>9 DEF Ragged
<1>15. up' = up /\ up
  BY DEF PutEvicting, Offered
<1>16. AllExact'
  <2>1. SUFFICES ASSUME ragged' # "stale", NEW m \in Media, store'[m].io
                 PROVE  Exact(store'[m], late')
    BY DEF AllExact
  <2>2. \A n \in Media : store[n].io => Exact(store[n], late)
    BY <1>14, <1>15, <2>1 DEF IndexInv, AllExact
  <2>3. CASE m = "flash"
    BY <1>6, <1>7, <1>11, <1>14, <2>1, <2>2, <2>3 DEF Follows
  <2>4. CASE m = "tf"
    BY <1>10, <1>11, <2>1, <2>2, <2>4 DEF Exact
  <2> QED
    BY <2>3, <2>4 DEF Media
<1>17. FlashBounded'
  <2>1. SUFFICES ASSUME ragged' = "no"
                 PROVE  Cardinality(Dir(e)) <= MaxRecords
    BY <1>11 DEF FlashBounded
  <2>2. ragged = "no" /\ s \notin r.torn
    BY <1>14, <2>1
  <2>3. CASE d.io
    <3>1. Exact(d, late)
      BY <1>15, <2>2, <2>3 DEF IndexInv, AllExact, Media
    <3>2. Exact(e, late') /\ e.count <= d.count
      BY <1>7, <2>2, <2>3, <3>1
    <3>3. Cardinality(Dir(d)) <= MaxRecords
      BY <1>15, <2>2 DEF IndexInv, FlashBounded
    <3>4. /\ Cardinality(Dir(e)) = e.count /\ e.count \in Int
          /\ Cardinality(Dir(d)) = d.count /\ d.count \in Int
      BY <1>3, <1>6, <3>1, <3>2 DEF Exact, Follows, Medium
    <3> QED
      BY <3>2, <3>3, <3>4, MaxRecordsAssumption
  <2>4. CASE ~d.io
    BY <1>6, <2>4, FS_EmptySet, MaxRecordsAssumption DEF Follows, Dir
  <2> QED
    BY <2>3, <2>4
<1> QED
  BY <1>13, <1>16, <1>17 DEF IndexInv

\* The put that is refused.
LEMMA PutRefusedIndex ==
  ASSUME IndexInv, NEW s \in Seqs, PutRefused(s), TypeOK'
  PROVE  IndexInv'
<1> DEFINE d == store["flash"]
<1>1. PICK flash \in FlashMissed(s) :
        /\ ~CanRemoveOldest(flash)
        /\ store' = [store EXCEPT !["flash"] = RemoveOldest(flash)]
        /\ ragged' = Ragged(s \in flash.torn)
  BY DEF PutRefused
<1> DEFINE e == RemoveOldest(flash)
<1>2. d \in Medium /\ store["tf"] \in Medium /\ late \in BOOLEAN
  BY DEF IndexInv, TypeOK, Media
<1>3. s \notin Dir(d)
  BY OfferedIsNew DEF IndexInv, PutRefused, Media
<1>4. Follows(d, flash, s) /\ (s \notin flash.torn => flash = d)
  BY MissedFollows DEF IndexInv
<1>5. Follows(flash, e, s)
  BY <1>4, RemoveOldestFollows DEF Follows
<1>6. ASSUME d.io, Exact(d, late), flash = d
      PROVE  Exact(e, late) /\ Dir(e) = Dir(d)
  <2>1. ExactBut(d, s, late) /\ d.oldest # s
    <3>1. ExactBut(d, s, late)
      BY <1>2, <1>3, <1>6, NoFileExact
    <3> QED
      BY <1>3, <3>1, NoneIsNoSeq DEF ExactBut
  <2>2. /\ e \in Medium /\ e.io /\ ExactBut(e, s, late)
    BY <1>2, <1>6, <2>1, RemoveOldestExact
  <2>3. Dir(e) = Dir(d)
    <3>1. e = d \/ e = LoadStoreState(d)
      BY <1>1, <1>2, <1>6 DEF RemoveOldest, CanRemoveOldest, Medium
    <3> HIDE DEF e
    <3> QED
      BY <1>2, <3>1, LoadExact DEF Dir
  <2> HIDE DEF e
  <2> QED
    BY <1>2, <1>3, <2>2, <2>3, NoFileExact
<1> HIDE DEF e
<1>7. store' = [m \in Media |-> IF m = "flash" THEN e ELSE store[m]]
  BY <1>1 DEF IndexInv, TypeOK, e
<1>8. store'["flash"] = e /\ store'["tf"] = store["tf"]
  BY <1>7 DEF Media
<1>9. \A m \in Media : Follows(store[m], store'[m], s)
  BY <1>2, <1>4, <1>5, <1>8 DEF Follows, Media
<1>10. NamesHanded' /\ CardMounted'
  BY <1>9, PutNames DEF IndexInv, PutRefused, Offered
<1>11. ragged' # "stale" => ragged' = ragged /\ flash = d
  BY <1>1, <1>4 DEF Ragged
<1>12. up' = up /\ up /\ late' = late
  BY DEF PutRefused, Offered
<1>13. e.io = d.io
  BY <1>4, <1>5 DEF Follows
<1>14. AllExact'
  BY <1>6, <1>8, <1>11, <1>12, <1>13 DEF IndexInv, AllExact, Media
<1>15. FlashBounded'
  <2>1. SUFFICES ASSUME ragged' = "no"
                 PROVE  Cardinality(Dir(e)) <= MaxRecords
    BY <1>8 DEF FlashBounded
  <2>2. CASE d.io
    BY <1>6, <1>11, <1>12, <2>1, <2>2
    DEF IndexInv, AllExact, FlashBounded, Media
  <2>3. CASE ~d.io
    BY <1>13, <2>3, FS_EmptySet, MaxRecordsAssumption DEF Dir
  <2> QED
    BY <2>2, <2>3
<1> QED
  BY <1>10, <1>14, <1>15 DEF IndexInv

\* One medium's half of offline_store_remove() keeps its index exact.
LEMMA UnlinkedExact ==
  ASSUME NEW d \in Medium, NEW s \in Seqs, NEW b \in BOOLEAN
  PROVE  LET e == Unlinked(d, s)
         IN /\ Follows(d, e, s) /\ Names(e) \subseteq Names(d)
            /\ Exact(d, b) => Exact(e, b)
            /\ Dir(e) \subseteq Dir(d)
<1> DEFINE u    == Unlink(d, s)
           rest == [u EXCEPT !.count = @ - 1]
           a    == AdvanceOldest(rest, s)
           e    == Unlinked(d, s)
           D    == Dir(d) \ {s}
<1>1. /\ u \in Medium /\ u.io = d.io
      /\ u.files = d.files \ {s} /\ u.torn = d.torn \ {s}
      /\ u.count = d.count /\ u.oldest = d.oldest
  BY DEF Unlink, Medium
<1>2. e = IF s \notin Dir(d) THEN d ELSE IF d.count <= 0 THEN u
          ELSE IF d.oldest = s THEN a ELSE rest
  BY DEF Unlinked
<1> HIDE DEF u, e
<1>3. /\ rest \in Medium /\ rest.io = d.io
      /\ rest.files = u.files /\ rest.torn = u.torn
      /\ rest.count = d.count - 1 /\ rest.oldest = d.oldest
  BY <1>1 DEF Medium
<1> HIDE DEF rest
<1>4. Dir(rest) = D /\ Dir(u) = D
  BY <1>1, <1>3 DEF Dir
<1>5. /\ a \in Medium /\ a.io = d.io /\ a.files = u.files /\ a.torn = u.torn
      /\ a.count = d.count - 1
      /\ a.oldest = IF d.count - 1 <= 0 THEN None
                    ELSE IF s + 1 \in D THEN s + 1 ELSE FindOldest(D)
  <2>1. a \in Medium
    BY <1>3, AdvanceKeeps DEF Keeps
  <2>2. /\ a.io = rest.io /\ a.files = rest.files /\ a.torn = rest.torn
        /\ a.count = rest.count
        /\ a.oldest = IF rest.count <= 0 THEN None
                      ELSE IF s + 1 \in Dir(rest) THEN s + 1
                      ELSE FindOldest(Dir(rest))
    BY <1>3 DEF AdvanceOldest, Medium
  <2> QED
    BY <1>3, <1>4, <2>1, <2>2
<1> HIDE DEF a
<1>6. Dir(a) = D
  BY <1>1, <1>5 DEF Dir
<1>7. e \in {d, u, rest, a}
  BY <1>2
<1>8. /\ Follows(d, e, s) /\ Names(e) \subseteq Names(d)
      /\ Dir(e) \subseteq Dir(d)
  BY <1>1, <1>3, <1>4, <1>5, <1>6, <1>7 DEF Follows, Names
<1>9. Exact(d, b) => Exact(e, b)
  <2> SUFFICES ASSUME Exact(d, b), s \in Dir(d) PROVE Exact(e, b)
    BY <1>2
  <2>1. Dir(d) \subseteq Seqs /\ D \subseteq Seqs /\ Dir(d) \subseteq Nat
    BY DirType, SeqsAssumption
  <2>2. d.count = Cardinality(Dir(d)) /\ d.count # 0 /\ d.count \in Nat
    BY <2>1, DirFinite DEF Exact
  <2>3. IsFiniteSet(Dir(d))
    BY <2>1, DirFinite
  <2>4. Cardinality(D) = d.count - 1
    BY <2>2, <2>3, FS_RemoveElement
  <2> HIDE DEF D
  <2>5. Cardinality(D) \in Nat /\ (Cardinality(D) = 0 <=> D = {})
    BY <2>1, DirFinite
  <2>6. CASE d.oldest # s
    <3>1. e = rest
      BY <1>2, <2>2, <2>6
    <3>2. d.oldest # None /\ d.oldest \in D
      BY <2>6 DEF Exact, D
    <3>3. ~b => \A t \in D : d.oldest <= t
      BY DEF Exact, D
    <3> QED
      BY <1>3, <1>4, <2>4, <3>1, <3>2, <3>3 DEF Exact
  <2>7. CASE d.oldest = s
    <3>1. e = a
      BY <1>2, <2>2, <2>7
    <3>2. D = {} => a.oldest = None
      BY <1>5, <2>4, <2>5
    <3>3. D # {} => IsLeast(FindOldest(D), D)
      BY <2>1, OldestIsLeast
    <3>4. D # {} =>
            a.oldest = IF s + 1 \in D THEN s + 1 ELSE FindOldest(D)
      <4>1. D # {} => ~(d.count - 1 <= 0)
        BY <2>2, <2>4, <2>5
      <4> QED
        BY <1>5, <4>1
    <3>5. D # {} => a.oldest \in D /\ a.oldest # None
      BY <2>1, <3>3, <3>4, NoneIsNoSeq DEF IsLeast
    <3>6. ~b => \A t \in D : a.oldest <= t
      <4>1. SUFFICES ASSUME ~b, NEW t \in D PROVE a.oldest <= t
        OBVIOUS
      <4>2. s <= t /\ t # s /\ t \in Nat /\ s \in Nat
        BY <2>1, <2>7, <4>1 DEF Exact, D
      <4>3. s + 1 <= t
        BY <4>2
      <4> QED
        BY <3>3, <3>4, <4>1, <4>3 DEF IsLeast
    <3> QED
      BY <1>5, <1>6, <2>4, <3>1, <3>2, <3>5, <3>6 DEF Exact
  <2> QED
    BY <2>6, <2>7
<1> QED
  BY <1>8, <1>9 DEF e

\* offline_store_remove().
LEMMA RemoveIndex ==
  ASSUME IndexInv, NEW s \in Seqs, Remove(s), TypeOK'
  PROVE  IndexInv'
<1>1. store' = [m \in Media |-> Unlinked(store[m], s)]
  BY DEF Remove
<1>2. /\ UNCHANGED <<tfMounted, up, handed, ragged, late>>
      /\ late \in BOOLEAN /\ \A m \in Media : store[m] \in Medium
  BY DEF Remove, IndexInv, TypeOK
<1>3. \A m \in Media : /\ Follows(store[m], store'[m], s)
                       /\ Names(store'[m]) \subseteq Names(store[m])
                       /\ Exact(store[m], late) => Exact(store'[m], late)
                       /\ Dir(store'[m]) \subseteq Dir(store[m])
  BY <1>1, <1>2, UnlinkedExact
<1>4. NamesHanded' /\ CardMounted'
  BY <1>2, <1>3 DEF IndexInv, NamesHanded, CardMounted, Follows, Media
<1>5. AllExact'
  BY <1>2, <1>3 DEF IndexInv, AllExact, Follows
<1>6. FlashBounded'
  <2> DEFINE d == store["flash"]
             e == store'["flash"]
  <2>1. Dir(e) \subseteq Dir(d) /\ Dir(d) \subseteq Seqs
    BY <1>2, <1>3, DirType DEF Media
  <2>2. Cardinality(Dir(e)) <= Cardinality(Dir(d))
    BY <2>1, DirFinite, FS_Subset
  <2>3. Cardinality(Dir(e)) \in Nat /\ Cardinality(Dir(d)) \in Nat
    BY <2>1, DirFinite
  <2> QED
    BY <1>2, <2>2, <2>3, MaxRecordsAssumption DEF IndexInv, FlashBounded
<1> QED
  BY <1>4, <1>5, <1>6 DEF IndexInv

\* The reload of a peek is a scan of every medium that answers.
LEMMA ReloadedExact ==
  ASSUME IndexInv, NEW m \in Media
  PROVE  /\ Reloaded[m] \in Medium /\ Reloaded[m].io = store[m].io
         /\ Reloaded[m].files = store[m].files
         /\ Reloaded[m].torn = store[m].torn
         /\ Reloaded[m].unsynced = store[m].unsynced
         /\ m = "flash" \/ tfMounted => Exact(Reloaded[m], FALSE)
<1>1. store[m] \in Medium
  BY DEF IndexInv, TypeOK
<1> DEFINE e == LoadStoreState(store[m])
<1>2. /\ e \in Medium /\ e.io = store[m].io /\ Exact(e, FALSE)
      /\ e.files = store[m].files /\ e.torn = store[m].torn
      /\ e.unsynced = store[m].unsynced
  BY <1>1, LoadExact
<1> HIDE DEF e
<1>3. Reloaded[m] = IF m = "flash" \/ tfMounted THEN e ELSE store[m]
  BY DEF Reloaded, e
<1> QED
  BY <1>1, <1>2, <1>3

\* A peek that scans the directories leaves an exact index.
LEMMA PeekReloadIndex ==
  ASSUME IndexInv, PeekReload, TypeOK'
  PROVE  IndexInv'
<1>1. \A m \in Media : /\ store'[m].io = store[m].io
                       /\ store'[m].files = store[m].files
                       /\ store'[m].torn = store[m].torn
                       /\ m = "flash" \/ tfMounted => Exact(store'[m], FALSE)
  BY ReloadedExact DEF PeekReload
<1>2. UNCHANGED <<tfMounted, up, handed>> /\ late' = FALSE
  BY DEF PeekReload
<1>3. \A m \in Media : Dir(store'[m]) = Dir(store[m])
                       /\ Names(store'[m]) = Names(store[m])
  BY <1>1 DEF Dir, Names
<1>4. NamesHanded' /\ CardMounted'
  BY <1>1, <1>2, <1>3 DEF IndexInv, NamesHanded, CardMounted, Media
<1>5. AllExact'
  BY <1>1, <1>2 DEF IndexInv, AllExact, CardMounted, Media
<1>6. FlashBounded'
  BY <1>2, <1>3 DEF IndexInv, FlashBounded, PeekReload, Media
<1> QED
  BY <1>4, <1>5, <1>6 DEF IndexInv

\* A card that does not answer has no directory.
LEMMA PullCardIndex ==
  ASSUME IndexInv, PullCard, TypeOK'
  PROVE  IndexInv'
<1>1. /\ store'["flash"] = store["flash"]
      /\ ~store'["tf"].io
      /\ Names(store'["tf"]) = Names(store["tf"])
  BY DEF PullCard, IndexInv, TypeOK, Medium, Media, Names
<1>2. UNCHANGED <<tfMounted, up, handed, ragged, late>>
  BY DEF PullCard
<1> QED
  BY <1>1, <1>2
  DEF IndexInv, NamesHanded, CardMounted, AllExact, FlashBounded, Media

\* After a reset there is no index, until the store is initialised again.
LEMMA PoweredOffIndex ==
  ASSUME NEW st \in [Media -> Medium], PoweredOff(st), TypeOK',
         \A m \in Media : Names(st[m]) \subseteq handed'
  PROVE  IndexInv'
<1>1. \A m \in Media : Names(store'[m]) = Names(st[m]) /\ ~store'[m].io
  BY DEF PoweredOff, Unindexed, Names, Medium
<1>2. NamesHanded'
  BY <1>1 DEF NamesHanded
<1> QED
  BY <1>1, <1>2
  DEF IndexInv, CardMounted, AllExact, FlashBounded, PoweredOff, Media

\* A put cut off by a power failure; the index is rebuilt at the next boot.
LEMMA PowerCutInPutIndex ==
  ASSUME IndexInv, NEW s \in Seqs, PowerCutInPut(s), TypeOK'
  PROVE  IndexInv'
<1> DEFINE Cut(m, d, w) ==
             PoweredOff([store EXCEPT ![m] = WriteRecord(d, s, w)])
<1>0. PICK m \in Media :
        \E d \in OpenedIn(m) : \E w \in {"refused", "cut"} : Cut(m, d, w)
  BY DEF PowerCutInPut
<1>1. PICK d \in OpenedIn(m), w \in {"refused", "cut"} : Cut(m, d, w)
  BY <1>0
<1> DEFINE c == store[m]
           e == WriteRecord(d, s, w)
<1>2. store \in [Media -> Medium] /\ c \in Medium
  BY DEF IndexInv, TypeOK
<1>3. \A x \in Medium : Follows(x, RemoveOldest(x), s) /\ Follows(x, x, s)
  BY RemoveOldestFollows DEF Follows
<1>4. d \in {c, RemoveOldest(c), RemoveOldest(RemoveOldest(c))}
  BY DEF OpenedIn
<1>5. Follows(c, d, s)
  BY <1>2, <1>3, <1>4 DEF Follows
<1>6. Follows(d, e, s)
  BY <1>5, WriteFollows DEF Follows, AnyOutcome
<1> HIDE DEF e
<1> DEFINE st == [store EXCEPT ![m] = e]
<1>7. st \in [Media -> Medium] /\ \A n \in Media :
        st[n] = IF n = m THEN e ELSE store[n]
  BY <1>2, <1>6 DEF Follows
<1>8. PoweredOff(st)
  BY <1>1 DEF e
<1>9. handed' = handed \cup {s}
  BY DEF PowerCutInPut, Offered
<1>10. \A n \in Media : Names(store[n]) \subseteq handed
  BY DEF IndexInv, NamesHanded
<1> HIDE DEF st
<1>11. \A n \in Media : Names(st[n]) \subseteq handed'
  BY <1>5, <1>6, <1>7, <1>9, <1>10 DEF Follows
<1> QED
  BY <1>7, <1>8, <1>11, PoweredOffIndex

\* Pruning leaves MaxRecords names: those above the lowest one that is kept
\* are fewer.
LEMMA NewestBounded ==
  ASSUME NEW S, S \subseteq Seqs
  PROVE  Cardinality(Newest(S)) <= MaxRecords
<1> DEFINE N == Newest(S)
<1>1. N \subseteq S /\ N \subseteq Seqs /\ S \subseteq Nat
  BY SeqsAssumption DEF Newest
<1>2. CASE N = {}
  BY <1>2, FS_EmptySet, MaxRecordsAssumption
<1>3. CASE N # {}
  <2>1. PICK x \in N : IsLeast(x, N)
    BY <1>1, <1>3, LeastExists
  <2> DEFINE T == {t \in S : x < t}
  <2>2. Cardinality(T) < MaxRecords
    BY <2>1 DEF Newest
  <2>3. T \subseteq Seqs /\ x \in Seqs
    BY <1>1
  <2>4. N \subseteq T \cup {x}
    <3>1. SUFFICES ASSUME NEW t \in N, t # x PROVE t \in S /\ x < t
      OBVIOUS
    <3>2. t \in Nat /\ x \in Nat /\ t \in S
      BY <1>1
    <3>3. x <= t
      BY <2>1 DEF IsLeast
    <3> QED
      BY <3>1, <3>2, <3>3
  <2> HIDE DEF N, T
  <2>5. IsFiniteSet(T) /\ Cardinality(T) \in Nat
    BY <2>3, DirFinite
  <2>6. IsFiniteSet(T \cup {x}) /\ Cardinality(T \cup {x}) \in Nat
    BY <2>3, DirFinite
  <2>7. Cardinality(T \cup {x}) <= Cardinality(T) + 1
    <3>1. Cardinality(T \cup {x}) \in {Cardinality(T), Cardinality(T) + 1}
      BY <2>5, FS_AddElement
    <3> QED
      BY <2>5, <3>1
  <2>8. Cardinality(N) <= Cardinality(T \cup {x}) /\ Cardinality(N) \in Nat
    BY <1>1, <2>4, <2>6, FS_Subset, DirFinite
  <2>9. Cardinality(N) <= MaxRecords
    BY <2>2, <2>5, <2>6, <2>7, <2>8, MaxRecordsAssumption
  <2> QED
    BY <2>9 DEF N
<1> QED
  BY <1>2, <1>3

\* offline_store_init() scans what it mounts, and prunes Flash.
LEMMA StoreInitIndex ==
  ASSUME IndexInv, NEW card \in BOOLEAN, StoreInit(card), TypeOK'
  PROVE  IndexInv'
<1> DEFINE on(m) == [store[m] EXCEPT !.io = TRUE]
           kept  == Newest(Dir(on("flash")))
           cut   == [on("flash") EXCEPT !.files = @ \cap kept,
                                        !.unsynced = @ \cap kept,
                                        !.torn = @ \cap kept]
<1>1. \A m \in Media :
        /\ store[m] \in Medium
        /\ on(m) \in Medium /\ on(m).io /\ on(m).files = store[m].files
        /\ on(m).torn = store[m].torn
  BY DEF IndexInv, TypeOK, Medium
<1>2. store'["flash"] = LoadStoreState(cut)
  BY DEF StoreInit, Pruned, Media
<1>3. store'["tf"] = IF card THEN LoadStoreState(on("tf")) ELSE store["tf"]
  BY DEF StoreInit, Media
<1> HIDE DEF on
<1>4. Dir(on("flash")) \subseteq Seqs
  BY <1>1, DirType DEF Media
<1>5. Cardinality(kept) <= MaxRecords /\ kept \subseteq Seqs
  BY <1>4, NewestBounded DEF Newest
<1> HIDE DEF kept
<1>6. /\ cut \in Medium /\ cut.io
      /\ cut.files = store["flash"].files \cap kept
      /\ cut.torn = store["flash"].torn \cap kept
  BY <1>1 DEF Medium, Media
<1> HIDE DEF cut
<1>7. /\ store'["flash"].io /\ Exact(store'["flash"], late)
      /\ store'["flash"].files = cut.files /\ store'["flash"].torn = cut.torn
  BY <1>2, <1>6, LoadExact DEF IndexInv, TypeOK
<1>8. /\ Names(store'["tf"]) = Names(store["tf"])
      /\ card => Exact(store'["tf"], late)
      /\ ~card => store'["tf"] = store["tf"]
  <2>1. CASE card
    <3> DEFINE e == LoadStoreState(on("tf"))
    <3>1. /\ e.files = on("tf").files /\ e.torn = on("tf").torn
          /\ Exact(e, late)
      BY <1>1, LoadExact DEF IndexInv, TypeOK, Media
    <3> HIDE DEF e
    <3>2. store'["tf"] = e
      BY <1>3, <2>1 DEF e
    <3> QED
      BY <1>1, <2>1, <3>1, <3>2 DEF Names, Media
  <2>2. CASE ~card
    BY <1>3, <2>2
  <2> QED
    BY <2>1, <2>2
<1>9. UNCHANGED <<handed, ragged, late>> /\ tfMounted' = card /\ up'
  BY DEF StoreInit
<1>10. NamesHanded'
  BY <1>6, <1>7, <1>8, <1>9 DEF IndexInv, NamesHanded, Names, Media
<1>11. FlashBounded'
  <2>1. Dir(store'["flash"]) \subseteq kept
    BY <1>6, <1>7 DEF Dir
  <2>2. /\ Cardinality(Dir(store'["flash"])) <= Cardinality(kept)
        /\ Cardinality(Dir(store'["flash"])) \in Nat
        /\ Cardinality(kept) \in Nat
    BY <1>5, <2>1, DirFinite, FS_Subset
  <2> QED
    BY <1>5, <2>2, MaxRecordsAssumption DEF FlashBounded
<1>12. ~card => ~store["tf"].io
  BY DEF IndexInv, CardMounted, StoreInit
<1> QED
  BY <1>7, <1>8, <1>9, <1>10, <1>11, <1>12
  DEF IndexInv, CardMounted, AllExact, Media
-----------------------------------------------------------------------------
\* The store starts with nothing handed to it and no files.
LEMMA IndexInvInit == Init => IndexInv
<1> SUFFICES ASSUME Init PROVE IndexInv
  OBVIOUS
<1>1. TypeOK
  BY StoreInvInit DEF StoreInv
<1>2. \A m \in Media : store[m] = EmptyMedium
  BY DEF Init
<1>3. ~up
  BY DEF Init
<1>4. /\ EmptyMedium.files = {} /\ EmptyMedium.torn = {} /\ ~EmptyMedium.io
  BY DEF EmptyMedium
<1>5. NamesHanded
  BY <1>2, <1>4 DEF NamesHanded, Names
<1>6. CardMounted
  BY <1>2, <1>4 DEF CardMounted, Media
<1> QED
  BY <1>1, <1>3, <1>5, <1>6 DEF IndexInv, AllExact, FlashBounded

\* Every action keeps the index exact and Flash bounded.
LEMMA IndexInvNext == IndexInv /\ TypeOK' /\ [Next]_vars => IndexInv'
<1> SUFFICES ASSUME IndexInv, TypeOK', [Next]_vars PROVE IndexInv'
  OBVIOUS
<1>1. ASSUME NEW s \in Seqs, Put(s) PROVE IndexInv'
  BY <1>1, PutFlashIndex, PutTfIndex, PutEvictingIndex, PutRefusedIndex
  DEF Put
<1>2. ASSUME NEW s \in Seqs, Remove(s) PROVE IndexInv'
  BY <1>2, RemoveIndex
<1>3. ASSUME NEW s \in Seqs, PowerCutInPut(s) PROVE IndexInv'
  BY <1>3, PowerCutInPutIndex
<1>4. ASSUME PeekReload PROVE IndexInv'
  BY <1>4, PeekReloadIndex
<1>5. ASSUME PowerCut PROVE IndexInv'
  BY <1>5, PoweredOffIndex DEF PowerCut, IndexInv, TypeOK, NamesHanded
<1>6. ASSUME NEW card \in BOOLEAN, StoreInit(card) PROVE IndexInv'
  BY <1>6, StoreInitIndex
<1>7. ASSUME PullCard PROVE IndexInv'
  BY <1>7, PullCardIndex
<1>8. ASSUME UNCHANGED vars PROVE IndexInv'
  BY <1>8
  DEF vars, IndexInv, NamesHanded, CardMounted, AllExact, FlashBounded
<1> QED
  BY <1>1, <1>2, <1>3, <1>4, <1>5, <1>6, <1>7, <1>8 DEF Next

\* Every reachable state has an exact index and Flash within its capacity.
THEOREM IndexInvariant == Spec => []IndexInv
BY IndexInvInit, IndexInvNext, StoreTypeCorrect, PTL DEF Spec

(***************************************************************************)
(* The counts and the oldest records that put, remove and the evictions    *)
(* keep in RAM are what offline_store_init() would find in the directory.  *)
(***************************************************************************)
THEOREM StoreIndexExact == Spec => []IndexExact
<1>1. IndexInv => IndexExact
  <2> SUFFICES ASSUME IndexInv, up, ragged # "stale", NEW m \in Media,
                      store[m].io
               PROVE  LET d == store[m]
                      IN /\ d.count = Cardinality(Dir(d))
                         /\ IF late THEN d.oldest = None <=> Dir(d) = {}
                            ELSE d.oldest = FindOldest(Dir(d))
    BY DEF IndexExact
  <2> DEFINE d == store[m]
  <2>1. Exact(d, late) /\ Dir(d) \subseteq Seqs
    BY DirType DEF IndexInv, AllExact, TypeOK
  <2> HIDE DEF d
  <2>2. ~late => d.oldest = FindOldest(Dir(d))
    <3>1. CASE Dir(d) = {}
      BY <2>1, <3>1 DEF Exact, FindOldest
    <3>2. CASE Dir(d) # {}
      BY <2>1, <3>2, LeastIsOldest DEF Exact, IsLeast
    <3> QED
      BY <3>1, <3>2
  <2> QED
    BY <2>1, <2>2 DEF Exact, d
<1> QED
  BY <1>1, IndexInvariant, PTL

(***************************************************************************)
(* The Flash cache stays within UIF_CACHE_MAX_RECORDS as long as no write  *)
(* has failed, also over the pruning of offline_store_init().              *)
(***************************************************************************)
THEOREM StoreFlashBounded == Spec => []FlashBounded
<1>1. IndexInv => FlashBounded
  BY DEF IndexInv
<1> QED
  BY <1>1, IndexInvariant, PTL
-----------------------------------------------------------------------------
AllNames(st) == UNION {Dir(st[m]) : m \in Media}

\* The lower of two exact indexes is the lowest record of both media, unless
\* it is a record of a card that is gone.
LEMMA CandidateIsLeast ==
  ASSUME NEW st, \A m \in Media : st[m] \in Medium,
         \A m \in Media : st[m].io => Exact(st[m], FALSE),
         st["tf"].io => tfMounted
  PROVE  LET c == Candidate(st)
         IN /\ c.medium \in Media
            /\ c.seq = None => AllNames(st) = {}
            /\ c.seq \in Dir(st[c.medium]) => IsLeast(c.seq, AllNames(st))
<1> DEFINE flash == st["flash"].oldest
           tf    == IF tfMounted THEN st["tf"].oldest ELSE None
           F     == Dir(st["flash"])
           T     == Dir(st["tf"])
           c     == Candidate(st)
<1>1. AllNames(st) = F \cup T
  BY DEF AllNames, Media
<1>2. c = IF flash # None /\ (tf = None \/ flash <= tf)
          THEN [medium |-> "flash", seq |-> flash]
          ELSE [medium |-> "tf", seq |-> tf]
  BY DEF Candidate
<1>3. /\ F # {} => flash # None
      /\ \A t \in F : flash <= t
  BY DEF Exact, Dir, Media
<1>4. /\ T # {} => tf # None
      /\ \A t \in T : tf <= t
  BY DEF Exact, Dir, Media
<1>5. /\ F \subseteq Nat /\ T \subseteq Nat
      /\ flash \in Nat /\ tf \in Nat
  <2>1. F \subseteq Seqs /\ T \subseteq Seqs
    BY DirType DEF Media
  <2>2. flash \in Seqs \cup {None} /\ tf \in Seqs \cup {None}
    BY DEF Medium, Media
  <2>3. Seqs \subseteq Nat /\ None \in Nat
    BY SeqsAssumption DEF None
  <2> HIDE DEF flash, tf, F, T
  <2> QED
    BY <2>1, <2>2, <2>3
<1> HIDE DEF flash, tf, F, T, c
<1>6. CASE flash # None /\ (tf = None \/ flash <= tf)
  <2>1. c.medium = "flash" /\ c.seq = flash
    BY <1>2, <1>6
  <2>2. \A t \in T : flash <= t
    BY <1>4, <1>5, <1>6
  <2>3. flash \in F => IsLeast(flash, F \cup T)
    BY <1>3, <2>2 DEF IsLeast
  <2> QED
    BY <1>1, <1>6, <2>1, <2>3 DEF F, c, Media
<1>7. CASE ~(flash # None /\ (tf = None \/ flash <= tf))
  <2>1. c.medium = "tf" /\ c.seq = tf
    BY <1>2, <1>7
  <2>2. tf = None => F \cup T = {}
    BY <1>3, <1>4, <1>7
  <2>3. \A t \in F : tf <= t
    <3>1. SUFFICES ASSUME NEW t \in F PROVE tf <= t
      OBVIOUS
    <3>2. flash # None /\ flash <= t
      BY <1>3
    <3>3. ~(flash <= tf)
      BY <1>7, <3>2
    <3> QED
      BY <1>5, <3>2, <3>3
  <2>4. tf \in T => IsLeast(tf, F \cup T)
    BY <1>4, <2>3 DEF IsLeast
  <2> QED
    BY <1>1, <2>1, <2>2, <2>4 DEF T, c, Media
<1> QED
  BY <1>6, <1>7

(***************************************************************************)
(* offline_store_peek_oldest() returns the lowest sequence_id over both    *)
(* media, after a reload where it needs one, unless that is an incomplete  *)
(* file without its header lines.                                          *)
(***************************************************************************)
THEOREM StorePeekIsOldest == Spec => []PeekIsOldest
<1>1. IndexInv => PeekIsOldest
  <2> DEFINE all == AllNames(store)
             low == FindOldest(all)
  <2>1. SUFFICES ASSUME IndexInv, up, ragged # "stale", ~late, all # {},
                        \A m \in Media : low \in Dir(store[m]) =>
                                          low \in Readable(store[m])
                 PROVE  PeekResult = low
    BY DEF PeekIsOldest, AllNames
  <2>2. /\ \A m \in Media : store[m] \in Medium
        /\ \A m \in Media : store[m].io => Exact(store[m], FALSE)
        /\ store["tf"].io => tfMounted
    BY <2>1 DEF IndexInv, TypeOK, AllExact, CardMounted
  <2>3. all \subseteq Seqs
    BY <2>2, DirType DEF AllNames
  <2>4. CASE ~NeedsReload
    <3> DEFINE c == Candidate(store)
    <3>1. /\ c.medium \in Media
          /\ c.seq = None => all = {}
          /\ c.seq \in Dir(store[c.medium]) => IsLeast(c.seq, all)
      BY <2>2, CandidateIsLeast
    <3>2. c.seq # None /\ Reads(store, c)
      BY <2>1, <2>4, <3>1 DEF NeedsReload
    <3>3. PeekResult = c.seq
      BY <2>4, <3>2 DEF PeekResult
    <3> HIDE DEF c
    <3>4. IsLeast(c.seq, all)
      BY <3>1, <3>2 DEF Reads, Readable
    <3> HIDE DEF all
    <3> QED
      BY <2>3, <3>3, <3>4, LeastIsOldest
  <2>5. CASE NeedsReload
    <3> DEFINE st == Reloaded
               c  == Candidate(st)
    <3>1. \A m \in Media :
            /\ st[m] \in Medium /\ st[m].io = store[m].io
            /\ st[m].files = store[m].files /\ st[m].torn = store[m].torn
            /\ st[m].unsynced = store[m].unsynced
            /\ m = "flash" \/ tfMounted => Exact(st[m], FALSE)
      BY <2>1, ReloadedExact
    <3> HIDE DEF st
    <3>2. \A m \in Media : Dir(st[m]) = Dir(store[m])
      BY <3>1 DEF Dir
    <3>3. AllNames(st) = all
      BY <3>2 DEF AllNames
    <3>4. /\ c.medium \in Media
          /\ c.seq = None => AllNames(st) = {}
          /\ c.seq \in Dir(st[c.medium]) => IsLeast(c.seq, AllNames(st))
      <4>1. /\ \A m \in Media : st[m] \in Medium
            /\ \A m \in Media : st[m].io => Exact(st[m], FALSE)
            /\ st["tf"].io => tfMounted
        BY <2>2, <3>1 DEF Media
      <4> QED
        BY <4>1, CandidateIsLeast
    <3>5. c.seq # None
      BY <2>1, <3>3, <3>4
    <3>6. c.seq \in Dir(st[c.medium])
      <4>1. c.seq = st[c.medium].oldest /\ (c.medium = "flash" \/ tfMounted)
        BY <3>5 DEF Candidate
      <4> QED
        BY <3>1, <3>4, <3>5, <4>1 DEF Exact
    <3>7. PeekResult = IF c.seq # None /\ Reads(st, c) THEN c.seq ELSE None
      BY <2>5 DEF PeekResult, st
    <3> HIDE DEF c
    <3>8. IsLeast(c.seq, all)
      BY <3>3, <3>4, <3>6
    <3>9. c.seq = low
      <4> HIDE DEF all
      <4> QED
        BY <2>3, <3>8, LeastIsOldest
    <3>10. Reads(st, c)
      <4>1. Readable(st[c.medium]) = Readable(store[c.medium])
        BY <3>1, <3>2, <3>4 DEF Readable
      <4>2. low \in Readable(store[c.medium])
        BY <2>1, <3>2, <3>4, <3>6, <3>9
      <4> QED
        BY <3>9, <4>1, <4>2 DEF Reads
    <3> QED
      BY <3>5, <3>7, <3>9, <3>10
  <2> QED
    BY <2>4, <2>5
<1> QED
  BY <1>1, IndexInvariant, PTL
=============================================================================
