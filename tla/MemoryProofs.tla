------------------------------ MODULE MemoryProofs ------------------------------
(***************************************************************************)
(* Theorems about the coherence controller, the virtual memory and the     *)
(* interconnect of mini-computer-arch, for every number of caches, lines,  *)
(* directory entries, pages, frames, TLB slots and nodes and every         *)
(* contents.                                                               *)
(*                                                                         *)
(* Coherence: the three properties hold each other up.  Data is passed on  *)
(* correctly because an owner is alone, and the directory stays right      *)
(* because an upgrade or a transfer finds no second copy.  Their           *)
(* conjunction with the type is inductive.                                 *)
(*                                                                         *)
(* Virtual memory: the ranks of the present pages are the numbers below    *)
(* their number, so a full queue has a page of the highest rank, whose     *)
(* frame is at the head: the eviction finds it, and only it.               *)
(*                                                                         *)
(* Interconnect: a route is written out place by place.  On the mesh the   *)
(* channels get a rank, the rows before the columns, that grows along      *)
(* every route; a set of waits along which a rank grows is trimmed to      *)
(* nothing, one rank at a time.                                            *)
(***************************************************************************)
EXTENDS Coherence, VirtualMemory, Interconnect, FiniteSetTheorems, SequenceTheorems, WellFoundedInduction,
        NaturalsInduction, TLAPS

\* A copy that is held is in a state of its own; a fill counts on it, because it
\* looks for holders by state.
HeldHasState == \A c \in Caches, t \in Tags : Holds(c, t) => At(c, t).state # "I"

CohIInv ==
    CohTypeOK /\ HeldHasState /\ SingleWriter /\ CopiesAreLatest /\ DirectoryNamesOwner

LineRecord == [tag : Tags, state : CoherenceState, valid : BOOLEAN, data : Line]
DirRecord  == [tag : Tags, state : CoherenceState, owner : Caches]

\* A line has a place in every cache and in the directory.
LEMMA PlacesExist ==
    ASSUME NEW t \in Tags
    PROVE  Index(t) \in Indices /\ DirSlot(t) \in DirSlots
BY CoherenceAssumption DEF Tags, Index, DirSlot, Indices, DirSlots

\* Only an owner's copy is ever followed, and an owner is alone.
LEMMA OneOwner ==
    ASSUME SingleWriter, NEW c \in Caches, NEW t \in Tags,
           NEW o \in Others(c, t, {"M"})
    PROVE  Others(c, t, CoherenceState) = {o} /\ Others(c, t, {"M"}) = {o}
BY DEF SingleWriter, Others, CoherenceState

\* Every operation rewrites the entries of one set, one in each cache: the types
\* survive, and a cache holds afterwards what the rewritten entry says, or a line
\* of another set it held before.
LEMMA SetRewritten ==
    ASSUME CohTypeOK, NEW t \in Tags, NEW e \in [Caches -> LineRecord],
           lines' = [i \in Caches |-> [lines[i] EXCEPT ![Index(t)] = e[i]]]
    PROVE  /\ lines' \in [Caches -> [Indices -> LineRecord]]
           /\ \A i \in Caches, u \in Tags : Holds(i, u)' =>
                \/ e[i].valid /\ e[i].tag = u /\ At(i, u)' = e[i] /\ Index(u) = Index(t)
                \/ Holds(i, u) /\ At(i, u)' = At(i, u) /\ Index(u) # Index(t)
<1>1. Index(t) \in Indices
  BY PlacesExist
<1>2. lines \in [Caches -> [Indices -> LineRecord]]
  BY DEF CohTypeOK, LineRecord
<1>3. lines' \in [Caches -> [Indices -> LineRecord]]
  BY <1>1, <1>2
<1>4. ASSUME NEW i \in Caches, NEW u \in Tags, Holds(i, u)'
      PROVE  \/ e[i].valid /\ e[i].tag = u /\ At(i, u)' = e[i] /\ Index(u) = Index(t)
             \/ Holds(i, u) /\ At(i, u)' = At(i, u) /\ Index(u) # Index(t)
  <2>1. Index(u)' = Index(u) /\ Index(u) \in Indices
    BY PlacesExist DEF Index
  <2>2. At(i, u)' = IF Index(u) = Index(t) THEN e[i] ELSE At(i, u)
    BY <1>2, <2>1 DEF At
  <2>3. At(i, u)'.valid /\ At(i, u)'.tag = u
    BY <1>4 DEF Holds
  <2> QED
    BY <2>2, <2>3 DEF Holds
<1> QED
  BY <1>3, <1>4

\* A copy of line t is found at t's place: no line of another set is disturbed.
LEMMA HeldAtPlace ==
    ASSUME CohTypeOK, NEW i \in Caches, NEW t \in Tags
    PROVE  At(i, t) \in LineRecord
BY PlacesExist DEF CohTypeOK, At, LineRecord

\* A read answered by an owner leaves two shared copies of its data.
LEMMA ReadFromOwnerInv ==
    ASSUME CohIInv, NEW c \in Caches, NEW t \in Tags, ReadFromOwner(c, t)
    PROVE  CohIInv'
<1> USE DEF CohIInv
<1>0. Index(t) \in Indices /\ DirSlot(t) \in DirSlots /\ \A i \in Caches : At(i, t) \in LineRecord
  BY PlacesExist, HeldAtPlace
<1>1. PICK o \in Others(c, t, {"M"}) :
        /\ lines' = [i \in Caches |-> [lines[i] EXCEPT ![Index(t)] =
               IF i = c THEN [tag |-> t, state |-> "S", valid |-> TRUE, data |-> At(o, t).data]
               ELSE IF i = o \/ (i < o /\ i \in Others(c, t, {"E"}))
                    THEN [@ EXCEPT !.state = "S"]
                    ELSE @]]
  BY DEF ReadFromOwner
<1>2. /\ directory' = IF directory[DirSlot(t)].tag = t
                      THEN [directory EXCEPT ![DirSlot(t)].state = "S"]
                      ELSE directory
      /\ UNCHANGED <<protocol, latest, refilled>>
  BY DEF ReadFromOwner
<1>3. /\ o \in Caches /\ o # c /\ Holds(o, t) /\ At(o, t).state = "M"
      /\ Others(c, t, CoherenceState) = {o}
  BY OneOwner DEF Others
<1>4. Others(c, t, {"E"}) = {}
  BY <1>3 DEF Others, CoherenceState
<1> DEFINE e == [i \in Caches |->
        IF i = c THEN [tag |-> t, state |-> "S", valid |-> TRUE, data |-> At(o, t).data]
        ELSE IF i = o THEN [At(o, t) EXCEPT !.state = "S"]
        ELSE At(i, t)]
<1>5. e \in [Caches -> LineRecord]
  BY <1>0, <1>3 DEF LineRecord, CoherenceState
<1>6. lines' = [i \in Caches |-> [lines[i] EXCEPT ![Index(t)] = e[i]]]
  BY <1>0, <1>1, <1>3, <1>4 DEF At
<1>7. \A i \in Caches, u \in Tags : Holds(i, u)' =>
        \/ u = t /\ i \in {c, o} /\ At(i, u)'.state = "S" /\ At(i, u)'.data = At(o, t).data
        \/ u # t /\ Holds(i, u) /\ At(i, u)' = At(i, u)
  <2> SUFFICES ASSUME NEW i \in Caches, NEW u \in Tags, Holds(i, u)'
               PROVE  \/ u = t /\ i \in {c, o} /\ At(i, u)'.state = "S" /\ At(i, u)'.data = At(o, t).data
                      \/ u # t /\ Holds(i, u) /\ At(i, u)' = At(i, u)
    OBVIOUS
  <2>1. CASE Holds(i, u) /\ At(i, u)' = At(i, u) /\ Index(u) # Index(t)
    BY <2>1
  <2>2. CASE e[i].valid /\ e[i].tag = u /\ At(i, u)' = e[i] /\ Index(u) = Index(t)
    <3>1. CASE i = c
      BY <2>2, <3>1
    <3>2. CASE i = o
      BY <1>0, <1>3, <2>2, <3>2 DEF Holds, LineRecord
    <3>3. CASE i \notin {c, o}
      <4>1. e[i] = At(i, t) /\ At(i, t) = At(i, u) /\ Holds(i, u)
        BY <2>2, <3>3 DEF At, Holds
      <4>2. ~Holds(i, t)
        BY <1>0, <1>3, <3>3 DEF Others, LineRecord
      <4> QED
        BY <2>2, <4>1, <4>2
    <3> QED
      BY <3>1, <3>2, <3>3
  <2> HIDE DEF e
  <2>3. \/ e[i].valid /\ e[i].tag = u /\ At(i, u)' = e[i] /\ Index(u) = Index(t)
        \/ Holds(i, u) /\ At(i, u)' = At(i, u) /\ Index(u) # Index(t)
    BY <1>5, <1>6, SetRewritten
  <2> QED
    BY <2>1, <2>2, <2>3
<1> HIDE DEF e
<1>8. CohTypeOK'
  <2>1. lines' \in [Caches -> [Indices -> LineRecord]]
    BY <1>5, <1>6, SetRewritten
  <2>2. directory' \in [DirSlots -> DirRecord]
    <3>1. directory \in [DirSlots -> DirRecord]
      BY DEF CohTypeOK, DirRecord
    <3>2. [directory[DirSlot(t)] EXCEPT !.state = "S"] \in DirRecord
      BY <1>0, <3>1 DEF DirRecord, CoherenceState
    <3> QED
      BY <1>0, <1>2, <3>1, <3>2
  <2> QED
    BY <1>2, <2>1, <2>2 DEF CohTypeOK, LineRecord, DirRecord
<1>9. SingleWriter'
  BY <1>7 DEF SingleWriter
<1>10. CopiesAreLatest'
  BY <1>2, <1>3, <1>7 DEF CopiesAreLatest
<1>11. DirectoryNamesOwner'
  <2> SUFFICES ASSUME NEW i \in Caches, NEW u \in Tags, Holds(i, u)', At(i, u)'.state \in {"M", "E"},
                      directory'[DirSlot(u)'].tag = u
               PROVE  directory'[DirSlot(u)'].owner = i /\ directory'[DirSlot(u)'].state \in {"M", "E"}
    BY DEF DirectoryNamesOwner
  <2>1. DirSlot(u)' = DirSlot(u) /\ DirSlot(u) \in DirSlots
    BY PlacesExist DEF DirSlot
  <2>2. u # t /\ Holds(i, u) /\ At(i, u)' = At(i, u)
    BY <1>7
  <2>3. \A d \in DirSlots : directory'[d] = directory[d] \/ directory'[d].tag = t
    BY <1>0, <1>2 DEF CohTypeOK
  <2> QED
    BY <2>1, <2>2, <2>3 DEF DirectoryNamesOwner
<1>12. HeldHasState'
  BY <1>7 DEF HeldHasState
<1> QED
  BY <1>8, <1>9, <1>10, <1>11, <1>12

\* A fill leaves shared copies only, or one exclusive copy if there was none.
LEMMA ReadFillInv ==
    ASSUME CohIInv, NEW c \in Caches, NEW t \in Tags, ReadFill(c, t)
    PROVE  CohIInv'
<1> USE DEF CohIInv
<1> DEFINE s == FillState(c, t)
           new == [tag |-> t, state |-> s, valid |-> TRUE, data |-> ZeroLine]
           e == [i \in Caches |->
                   IF i = c THEN new
                   ELSE IF i \in Others(c, t, {"E"}) THEN [At(i, t) EXCEPT !.state = "S"]
                   ELSE At(i, t)]
<1>0. /\ Index(t) \in Indices /\ DirSlot(t) \in DirSlots
      /\ \A i \in Caches : At(i, t) \in LineRecord
      /\ s \in {"E", "S"}
  BY PlacesExist, HeldAtPlace DEF FillState
<1>1. /\ directory' = dir_update(t, s, c)
      /\ refilled' = refilled \cup {t}
      /\ UNCHANGED <<protocol, latest>>
      /\ Others(c, t, {"M"}) = {}
  BY DEF ReadFill
<1>2. e \in [Caches -> LineRecord]
  BY <1>0, CoherenceAssumption DEF LineRecord, CoherenceState
<1>3. lines' = [i \in Caches |-> [lines[i] EXCEPT ![Index(t)] = e[i]]]
  <2>1. lines' = [i \in Caches |-> [lines[i] EXCEPT ![Index(t)] =
           IF i = c THEN new
           ELSE IF i \in Others(c, t, {"E"}) THEN [@ EXCEPT !.state = "S"]
           ELSE @]]
    BY DEF ReadFill
  <2> QED
    BY <1>0, <2>1 DEF At
<1>4. \A i \in Caches \ {c} : Holds(i, t) =>
        /\ s = "S"
        /\ At(i, t).state \in {"E", "S"}
        /\ At(i, t).state = "E" => i \in Others(c, t, {"E"})
  <2> SUFFICES ASSUME NEW i \in Caches \ {c}, Holds(i, t)
               PROVE  /\ s = "S"
                      /\ At(i, t).state \in {"E", "S"}
                      /\ At(i, t).state = "E" => i \in Others(c, t, {"E"})
    OBVIOUS
  <2>1. At(i, t).state \in {"M", "E", "S"} 
    BY <1>0 DEF LineRecord, CoherenceState, HeldHasState
  <2> QED
    BY <1>1, <2>1 DEF Others, FillState
<1> HIDE DEF s
<1>5. \A i \in Caches, u \in Tags : Holds(i, u)' =>
        \/ u = t /\ i = c /\ At(i, u)' = new
        \/ u = t /\ i # c /\ s = "S" /\ Holds(i, t) /\ At(i, u)'.state = "S"
        \/ u # t /\ Holds(i, u) /\ At(i, u)' = At(i, u)
  <2> SUFFICES ASSUME NEW i \in Caches, NEW u \in Tags, Holds(i, u)'
               PROVE  \/ u = t /\ i = c /\ At(i, u)' = new
                      \/ u = t /\ i # c /\ s = "S" /\ Holds(i, t) /\ At(i, u)'.state = "S"
                      \/ u # t /\ Holds(i, u) /\ At(i, u)' = At(i, u)
    OBVIOUS
  <2>1. CASE Holds(i, u) /\ At(i, u)' = At(i, u) /\ Index(u) # Index(t)
    BY <2>1
  <2>2. CASE e[i].valid /\ e[i].tag = u /\ At(i, u)' = e[i] /\ Index(u) = Index(t)
    <3>1. CASE i = c
      BY <2>2, <3>1
    <3>2. CASE i # c /\ i \in Others(c, t, {"E"})
      <4>1. /\ Holds(i, t) /\ e[i] = [At(i, t) EXCEPT !.state = "S"]
            /\ At(i, t).tag = t /\ At(i, t) \in LineRecord
        BY <1>0, <3>2 DEF Others, Holds
      <4>2. e[i].tag = t /\ e[i].state = "S"
        BY <4>1 DEF LineRecord
      <4> QED
        BY <1>4, <2>2, <3>2, <4>1, <4>2
    <3>3. CASE i # c /\ i \notin Others(c, t, {"E"})
      <4>1. e[i] = At(i, t) /\ At(i, t) = At(i, u) /\ Holds(i, u)
        BY <2>2, <3>3 DEF At, Holds
      <4> QED
        BY <1>4, <2>2, <3>3, <4>1
    <3> QED
      BY <3>1, <3>2, <3>3
  <2> HIDE DEF e
  <2>3. \/ e[i].valid /\ e[i].tag = u /\ At(i, u)' = e[i] /\ Index(u) = Index(t)
        \/ Holds(i, u) /\ At(i, u)' = At(i, u) /\ Index(u) # Index(t)
    BY <1>2, <1>3, SetRewritten
  <2> QED
    BY <2>1, <2>2, <2>3
<1> HIDE DEF e
<1>6. directory' \in [DirSlots -> DirRecord]
      /\ \A d \in DirSlots : directory'[d] =
            IF d = DirSlot(t) THEN [tag |-> t, state |-> s, owner |-> c] ELSE directory[d]
  <2>1. directory \in [DirSlots -> DirRecord] /\ [tag |-> t, state |-> s, owner |-> c] \in DirRecord
    BY <1>0 DEF CohTypeOK, DirRecord, CoherenceState
  <2> QED
    BY <1>0, <1>1, <2>1 DEF dir_update
<1>7. CohTypeOK'
  <2>1. lines' \in [Caches -> [Indices -> LineRecord]]
    BY <1>2, <1>3, SetRewritten
  <2> QED
    BY <1>1, <1>6, <2>1 DEF CohTypeOK, LineRecord, DirRecord
<1>8. SingleWriter'
  BY <1>5 DEF SingleWriter
<1>9. CopiesAreLatest'
  BY <1>0, <1>1, <1>5 DEF CopiesAreLatest
<1>10. DirectoryNamesOwner'
  <2> SUFFICES ASSUME NEW i \in Caches, NEW u \in Tags, Holds(i, u)', At(i, u)'.state \in {"M", "E"},
                      directory'[DirSlot(u)'].tag = u
               PROVE  directory'[DirSlot(u)'].owner = i /\ directory'[DirSlot(u)'].state \in {"M", "E"}
    BY DEF DirectoryNamesOwner
  <2>1. DirSlot(u)' = DirSlot(u) /\ DirSlot(u) \in DirSlots
    BY PlacesExist DEF DirSlot
  <2>2. \/ u = t /\ i = c /\ At(i, u)'.state = s
        \/ u # t /\ Holds(i, u) /\ At(i, u)' = At(i, u)
    BY <1>5
  <2> QED
    BY <1>6, <2>1, <2>2 DEF DirectoryNamesOwner
<1>11. HeldHasState'
  BY <1>0, <1>5 DEF HeldHasState
<1> QED
  BY <1>7, <1>8, <1>9, <1>10, <1>11

\* An upgrade is silent: the line was alone already and the directory knew.
LEMMA WriteHitInv ==
    ASSUME CohIInv, NEW c \in Caches, NEW t \in Tags, NEW d \in Line \cup {NoData}, WriteHit(c, t, d)
    PROVE  CohIInv'
<1> USE DEF CohIInv
<1> DEFINE v == Written(At(c, t).data, d)
           e == [i \in Caches |-> IF i = c THEN [At(c, t) EXCEPT !.state = "M", !.data = v]
                                  ELSE At(i, t)]
<1>0. /\ Index(t) \in Indices
      /\ \A i \in Caches : At(i, t) \in LineRecord
  BY PlacesExist, HeldAtPlace
<1>1. /\ Holds(c, t) /\ At(c, t).state \in {"M", "E"}
      /\ latest' = [latest EXCEPT ![t] = v]
      /\ refilled' = refilled \ {t}
      /\ UNCHANGED <<protocol, directory>>
      /\ v \in Line
  BY <1>0 DEF WriteHit, Written, LineRecord
<1>2. e \in [Caches -> LineRecord]
  BY <1>0, <1>1 DEF LineRecord, CoherenceState
<1>3. lines' = [i \in Caches |-> [lines[i] EXCEPT ![Index(t)] = e[i]]]
  <2>1. lines \in [Caches -> [Indices -> LineRecord]]
    BY DEF CohTypeOK, LineRecord
  <2>2. lines' = [lines EXCEPT ![c] = [lines[c] EXCEPT ![Index(t)] =
                    [At(c, t) EXCEPT !.state = "M", !.data = v]]]
    BY <1>0, <2>1 DEF WriteHit, At, LineRecord, Written
  <2> QED
    BY <1>0, <2>1, <2>2 DEF At
<1>4. \A i \in Caches, u \in Tags : Holds(i, u)' =>
        \/ u = t /\ i = c /\ At(i, u)'.state = "M" /\ At(i, u)'.data = v
        \/ u # t /\ Holds(i, u) /\ At(i, u)' = At(i, u)
  <2> SUFFICES ASSUME NEW i \in Caches, NEW u \in Tags, Holds(i, u)'
               PROVE  \/ u = t /\ i = c /\ At(i, u)'.state = "M" /\ At(i, u)'.data = v
                      \/ u # t /\ Holds(i, u) /\ At(i, u)' = At(i, u)
    OBVIOUS
  <2> HIDE DEF v
  <2>1. CASE Holds(i, u) /\ At(i, u)' = At(i, u) /\ Index(u) # Index(t)
    BY <2>1
  <2>2. CASE e[i].valid /\ e[i].tag = u /\ At(i, u)' = e[i] /\ Index(u) = Index(t)
    <3>1. CASE i = c
      BY <1>0, <1>1, <2>2, <3>1 DEF Holds, LineRecord
    <3>2. CASE i # c
      <4>1. e[i] = At(i, t) /\ At(i, t) = At(i, u) /\ Holds(i, u)
        BY <2>2, <3>2 DEF At, Holds
      <4>2. ~Holds(i, t)
        BY <1>1, <3>2 DEF SingleWriter
      <4> QED
        BY <2>2, <4>1, <4>2
    <3> QED
      BY <3>1, <3>2
  <2> HIDE DEF e
  <2>3. \/ e[i].valid /\ e[i].tag = u /\ At(i, u)' = e[i] /\ Index(u) = Index(t)
        \/ Holds(i, u) /\ At(i, u)' = At(i, u) /\ Index(u) # Index(t)
    BY <1>2, <1>3, SetRewritten
  <2> QED
    BY <2>1, <2>2, <2>3
<1> HIDE DEF e, v
<1>5. CohTypeOK'
  <2>1. lines' \in [Caches -> [Indices -> LineRecord]]
    BY <1>2, <1>3, SetRewritten
  <2> QED
    BY <1>1, <2>1 DEF CohTypeOK, LineRecord
<1>6. SingleWriter'
  BY <1>4 DEF SingleWriter
<1>7. CopiesAreLatest'
  BY <1>1, <1>4 DEF CopiesAreLatest, CohTypeOK
<1>8. DirectoryNamesOwner'
  <2> SUFFICES ASSUME NEW i \in Caches, NEW u \in Tags, Holds(i, u)', At(i, u)'.state \in {"M", "E"},
                      directory'[DirSlot(u)'].tag = u
               PROVE  directory'[DirSlot(u)'].owner = i /\ directory'[DirSlot(u)'].state \in {"M", "E"}
    BY DEF DirectoryNamesOwner
  <2>1. DirSlot(u)' = DirSlot(u)
    BY DEF DirSlot
  <2>2. Holds(i, u) /\ At(i, u).state \in {"M", "E"}
    BY <1>1, <1>4
  <2> QED
    BY <1>1, <2>1, <2>2 DEF DirectoryNamesOwner
<1>9. HeldHasState'
  BY <1>4 DEF HeldHasState
<1> QED
  BY <1>5, <1>6, <1>7, <1>8, <1>9

\* A write that does not find the line exclusive takes the owner's data, if it
\* needs any, and drops every other copy.
LEMMA WriteMissInv ==
    ASSUME CohIInv, NEW c \in Caches, NEW t \in Tags, NEW d \in Line \cup {NoData}, WriteMiss(c, t, d)
    PROVE  CohIInv'
<1> USE DEF CohIInv
<1> DEFINE v == Written(Kept(c, t), d)
           new == [tag |-> t, state |-> "M", valid |-> TRUE, data |-> v]
           e == [i \in Caches |->
                   IF i = c THEN new
                   ELSE IF i \in Invalidated(c, t) THEN [At(i, t) EXCEPT !.state = "I", !.valid = FALSE]
                   ELSE At(i, t)]
<1>0. /\ Index(t) \in Indices /\ DirSlot(t) \in DirSlots
      /\ \A i \in Caches : At(i, t) \in LineRecord
  BY PlacesExist, HeldAtPlace
<1>1. Kept(c, t) \in Line
  <2>1. CASE Others(c, t, {"M"}) = {}
    BY <1>0, <2>1 DEF Kept, LineRecord
  <2>2. CASE Others(c, t, {"M"}) # {}
    <3>1. PICK o \in Caches : Others(c, t, {"M"}) = {o}
      BY <2>2, OneOwner DEF Others
    <3>2. o <= o
      BY DEF Caches
    <3>3. Kept(c, t) = At(o, t).data
      BY <3>1, <3>2 DEF Kept
    <3> QED
      BY <1>0, <3>3 DEF LineRecord
  <2> QED
    BY <2>1, <2>2
<1>2. /\ latest' = [latest EXCEPT ![t] = v]
      /\ directory' = dir_update(t, "M", c)
      /\ refilled' = refilled \ {t}
      /\ UNCHANGED protocol
      /\ v \in Line
  BY <1>1 DEF WriteMiss, Written
<1>3. e \in [Caches -> LineRecord]
  BY <1>0, <1>2 DEF LineRecord, CoherenceState
<1>4. lines' = [i \in Caches |-> [lines[i] EXCEPT ![Index(t)] = e[i]]]
  <2>1. lines' = [i \in Caches |-> [lines[i] EXCEPT ![Index(t)] =
           IF i = c THEN new
           ELSE IF i \in Invalidated(c, t) THEN [@ EXCEPT !.state = "I", !.valid = FALSE]
           ELSE @]]
    BY DEF WriteMiss
  <2> QED
    BY <1>0, <2>1 DEF At
<1> HIDE DEF v
<1>5. \A i \in Caches, u \in Tags : Holds(i, u)' =>
        \/ u = t /\ i = c /\ At(i, u)' = new
        \/ u # t /\ Holds(i, u) /\ At(i, u)' = At(i, u)
  <2> SUFFICES ASSUME NEW i \in Caches, NEW u \in Tags, Holds(i, u)'
               PROVE  \/ u = t /\ i = c /\ At(i, u)' = new
                      \/ u # t /\ Holds(i, u) /\ At(i, u)' = At(i, u)
    OBVIOUS
  <2>1. CASE Holds(i, u) /\ At(i, u)' = At(i, u) /\ Index(u) # Index(t)
    BY <2>1
  <2>2. CASE e[i].valid /\ e[i].tag = u /\ At(i, u)' = e[i] /\ Index(u) = Index(t)
    <3>1. CASE i = c
      BY <2>2, <3>1
    <3>2. CASE i # c /\ i \in Invalidated(c, t)
      BY <1>0, <2>2, <3>2 DEF LineRecord
    <3>3. CASE i # c /\ i \notin Invalidated(c, t)
      <4>1. e[i] = At(i, t) /\ At(i, t) = At(i, u) /\ Holds(i, u)
        BY <2>2, <3>3 DEF At, Holds
      <4>2. ~Holds(i, t)
        BY <1>0, <3>3 DEF Invalidated, Others, LineRecord
      <4> QED
        BY <2>2, <4>1, <4>2
    <3> QED
      BY <3>1, <3>2, <3>3
  <2> HIDE DEF e
  <2>3. \/ e[i].valid /\ e[i].tag = u /\ At(i, u)' = e[i] /\ Index(u) = Index(t)
        \/ Holds(i, u) /\ At(i, u)' = At(i, u) /\ Index(u) # Index(t)
    BY <1>3, <1>4, SetRewritten
  <2> QED
    BY <2>1, <2>2, <2>3
<1> HIDE DEF e
<1>6. directory' \in [DirSlots -> DirRecord]
      /\ \A x \in DirSlots : directory'[x] =
            IF x = DirSlot(t) THEN [tag |-> t, state |-> "M", owner |-> c] ELSE directory[x]
  <2>1. directory \in [DirSlots -> DirRecord] /\ [tag |-> t, state |-> "M", owner |-> c] \in DirRecord
    BY DEF CohTypeOK, DirRecord, CoherenceState
  <2> QED
    BY <1>0, <1>2, <2>1 DEF dir_update
<1>7. CohTypeOK'
  <2>1. lines' \in [Caches -> [Indices -> LineRecord]]
    BY <1>3, <1>4, SetRewritten
  <2> QED
    BY <1>2, <1>6, <2>1 DEF CohTypeOK, LineRecord, DirRecord
<1>8. SingleWriter'
  BY <1>5 DEF SingleWriter
<1>9. CopiesAreLatest'
  BY <1>2, <1>5 DEF CopiesAreLatest, CohTypeOK
<1>10. DirectoryNamesOwner'
  <2> SUFFICES ASSUME NEW i \in Caches, NEW u \in Tags, Holds(i, u)', At(i, u)'.state \in {"M", "E"},
                      directory'[DirSlot(u)'].tag = u
               PROVE  directory'[DirSlot(u)'].owner = i /\ directory'[DirSlot(u)'].state \in {"M", "E"}
    BY DEF DirectoryNamesOwner
  <2>1. DirSlot(u)' = DirSlot(u) /\ DirSlot(u) \in DirSlots
    BY PlacesExist DEF DirSlot
  <2>2. \/ u = t /\ i = c
        \/ u # t /\ Holds(i, u) /\ At(i, u)' = At(i, u)
    BY <1>5
  <2> QED
    BY <1>6, <2>1, <2>2 DEF DirectoryNamesOwner
<1>11. HeldHasState'
  BY <1>5 DEF HeldHasState
<1> QED
  BY <1>7, <1>8, <1>9, <1>10, <1>11

\* A snooped write only takes a copy away.
LEMMA SnoopInv ==
    ASSUME CohIInv, NEW c \in Caches, NEW t \in Tags, NEW is_write \in BOOLEAN,
           coherence_snoop(c, t, is_write)
    PROVE  CohIInv'
<1> USE DEF CohIInv
<1>0. /\ Index(t) \in Indices
      /\ lines \in [Caches -> [Indices -> LineRecord]]
      /\ UNCHANGED <<protocol, directory, latest, refilled>>
  BY PlacesExist DEF CohTypeOK, LineRecord, coherence_snoop
<1>1. lines' \in [Caches -> [Indices -> LineRecord]]
      /\ \A i \in Caches, x \in Indices : lines'[i][x].valid => lines'[i][x] = lines[i][x]
  <2>1. CASE Holds(c, t) /\ is_write
    <3> DEFINE gone == [lines[c][Index(t)] EXCEPT !.state = "I", !.valid = FALSE]
    <3>1. gone \in LineRecord /\ ~gone.valid
      <4>1. lines[c][Index(t)] \in LineRecord /\ "I" \in CoherenceState
        BY <1>0 DEF CoherenceState
      <4>2. gone \in LineRecord
        BY <4>1 DEF LineRecord
      <4>3. gone.valid = FALSE
        BY <4>1 DEF LineRecord
      <4> QED
        BY <4>2, <4>3
    <3>2. lines' = [lines EXCEPT ![c] = [lines[c] EXCEPT ![Index(t)] = gone]]
      BY <1>0, <2>1 DEF coherence_snoop, LineRecord
    <3> HIDE DEF gone
    <3> QED
      BY <1>0, <3>1, <3>2
  <2>2. CASE ~(Holds(c, t) /\ is_write)
    BY <1>0, <2>2 DEF coherence_snoop
  <2> QED
    BY <2>1, <2>2
<1>2. \A i \in Caches, u \in Tags : Holds(i, u)' => Holds(i, u) /\ At(i, u)' = At(i, u)
  <2> SUFFICES ASSUME NEW i \in Caches, NEW u \in Tags, Holds(i, u)'
               PROVE  Holds(i, u) /\ At(i, u)' = At(i, u)
    OBVIOUS
  <2>1. Index(u)' = Index(u) /\ Index(u) \in Indices
    BY PlacesExist DEF Index
  <2> QED
    BY <1>1, <2>1 DEF Holds, At
<1>3. CohTypeOK'
  BY <1>0, <1>1 DEF CohTypeOK, LineRecord
<1>4. SingleWriter'
  BY <1>2 DEF SingleWriter
<1>5. CopiesAreLatest'
  BY <1>0, <1>2 DEF CopiesAreLatest
<1>6. DirectoryNamesOwner'
  <2>1. \A u \in Tags : DirSlot(u)' = DirSlot(u)
    BY DEF DirSlot
  <2> QED
    BY <1>0, <1>2, <2>1 DEF DirectoryNamesOwner
<1>7. HeldHasState'
  BY <1>2 DEF HeldHasState
<1> QED
  BY <1>3, <1>4, <1>5, <1>6, <1>7

\* The invariant holds after coherence_init and survives every operation.
LEMMA InvariantHolds == CohSpec => []CohIInv
<1>1. CohInit => CohIInv
  <2> SUFFICES ASSUME CohInit PROVE CohIInv
    OBVIOUS
  <2>1. 0 \in Tags /\ 0 \in Caches
    BY CoherenceAssumption DEF Tags, Caches
  <2>2. CohTypeOK
    BY <2>1, CoherenceAssumption DEF CohInit, CohTypeOK, CoherenceState
  <2>3. \A c \in Caches, t \in Tags : ~Holds(c, t)
    BY PlacesExist DEF CohInit, Holds, At
  <2> QED
    BY <2>2, <2>3 DEF CohIInv, HeldHasState, SingleWriter, CopiesAreLatest, DirectoryNamesOwner
<1>2. CohIInv /\ [CohNext]_coh_vars => CohIInv'
  <2> SUFFICES ASSUME CohIInv, [CohNext]_coh_vars PROVE CohIInv'
    OBVIOUS
  <2>1. CASE UNCHANGED coh_vars
    BY <2>1 DEF coh_vars, CohIInv, CohTypeOK, HeldHasState, SingleWriter, CopiesAreLatest,
                DirectoryNamesOwner, Holds, At, Index, DirSlot
  <2>2. ASSUME NEW c \in Caches, NEW t \in Tags, coherence_read(c, t)
        PROVE  CohIInv'
    BY <2>1, <2>2, ReadFromOwnerInv, ReadFillInv DEF coherence_read, ReadHit
  <2>3. ASSUME NEW c \in Caches, NEW t \in Tags, NEW d \in Line \cup {NoData}, coherence_write(c, t, d)
        PROVE  CohIInv'
    BY <2>3, WriteHitInv, WriteMissInv DEF coherence_write
  <2>4. ASSUME NEW c \in Caches, NEW t \in Tags, NEW is_write \in BOOLEAN, coherence_snoop(c, t, is_write)
        PROVE  CohIInv'
    BY <2>4, SnoopInv
  <2> QED
    BY <2>1, <2>2, <2>3, <2>4 DEF CohNext
<1> QED
  BY <1>1, <1>2, PTL DEF CohSpec

\* Cache entries and directory entries keep their types under every operation.
THEOREM CoherenceTypeCorrect == CohSpec => []CohTypeOK
BY InvariantHolds, PTL DEF CohIInv

\* For every number of caches: beside a modified or exclusive copy no cache holds
\* the line, whichever protocol is used and however reads, writes, evictions and
\* snoops interleave.
THEOREM SingleWriterCorrect == CohSpec => []SingleWriter
BY InvariantHolds, PTL DEF CohIInv

\* A modified copy has the last data written, and so has every copy until a miss
\* of the line is filled with zeros.
THEOREM LatestDataCorrect == CohSpec => []CopiesAreLatest
BY InvariantHolds, PTL DEF CohIInv

\* What the directory says of a line it has an entry for leads to the cache that
\* may write it.
THEOREM DirectoryCorrect == CohSpec => []DirectoryNamesOwner
BY InvariantHolds, PTL DEF CohIInv
--------------------------------------------------------------------------------
(* Virtual memory. *)

\* Every non-empty set of naturals has a least element.
LEMMA LeastElement ==
  ASSUME NEW S \in SUBSET Nat, S # {}
  PROVE  \E m \in S : \A n \in S : m <= n
<1>1. PICK x \in S : \A y \in S : <<y, x>> \notin OpToRel(<, Nat)
  BY NatLessThanWellFounded, WFMin, Zenon
<1>2. \A y \in S : ~(y < x)
  BY <1>1 DEF OpToRel
<1> QED
  BY <1>2

PageTable ==
    [frame_number : [Pages -> Frames], present : [Pages -> BOOLEAN],
     used : SUBSET Frames, free_frames : 0 .. PHYSICAL_MEMORY_PAGES,
     fifo_queue : [Frames -> Frames], fifo_head : Frames, fifo_count : 0 .. UINT32 - 1]

Present(p) == {v \in Pages : p.present[v]}

\* Sets of pages and of frames are finite, and no larger than their ranges.
LEMMA PagesFinite ==
  /\ \A S \in SUBSET Pages : IsFiniteSet(S) /\ Cardinality(S) \in 0 .. NUM_PAGES
  /\ \A S \in SUBSET Frames : IsFiniteSet(S) /\ Cardinality(S) \in 0 .. PHYSICAL_MEMORY_PAGES
  /\ Cardinality(Frames) = PHYSICAL_MEMORY_PAGES
<1>1. IsFiniteSet(Pages) /\ Cardinality(Pages) = NUM_PAGES
  BY FS_Interval, VmAssumption DEF Pages
<1>2. IsFiniteSet(Frames) /\ Cardinality(Frames) = PHYSICAL_MEMORY_PAGES
  BY FS_Interval, VmAssumption DEF Frames
<1>3. ASSUME NEW S \in SUBSET Pages
      PROVE  IsFiniteSet(S) /\ Cardinality(S) \in 0 .. NUM_PAGES
  <2>1. IsFiniteSet(S) /\ Cardinality(S) <= Cardinality(Pages)
    BY <1>1, FS_Subset
  <2>2. Cardinality(S) \in Nat
    BY <2>1, FS_CardinalityType
  <2> QED
    BY <1>1, <2>1, <2>2, VmAssumption
<1>4. ASSUME NEW S \in SUBSET Frames
      PROVE  IsFiniteSet(S) /\ Cardinality(S) \in 0 .. PHYSICAL_MEMORY_PAGES
  <2>1. IsFiniteSet(S) /\ Cardinality(S) <= Cardinality(Frames)
    BY <1>2, FS_Subset
  <2>2. Cardinality(S) \in Nat
    BY <2>1, FS_CardinalityType
  <2> QED
    BY <1>2, <2>1, <2>2, VmAssumption
<1> QED
  BY <1>2, <1>3, <1>4

\* An index of the circular queue less than twice its length wraps once at most.
LEMMA Wraps ==
  ASSUME NEW x \in 0 .. 2 * PHYSICAL_MEMORY_PAGES - 1
  PROVE  /\ x % PHYSICAL_MEMORY_PAGES \in Frames
         /\ x < PHYSICAL_MEMORY_PAGES => x % PHYSICAL_MEMORY_PAGES = x
         /\ x >= PHYSICAL_MEMORY_PAGES => x % PHYSICAL_MEMORY_PAGES = x - PHYSICAL_MEMORY_PAGES
BY VmAssumption, Z3 DEF Frames
--------------------------------------------------------------------------------
(* The order in which the present pages were mapped. *)

\* The ranks of the pages of P are the numbers below their number, each once.
Ranking(P, r) ==
    /\ \A u, v \in P : u # v => r[u] # r[v]
    /\ \A v \in P : r[v] < Cardinality(P)
    /\ \A n \in 0 .. Cardinality(P) - 1 : \E v \in P : r[v] = n

\* One page leaves: those mapped before it move up.
LEMMA RankLeaves ==
  ASSUME NEW P \in SUBSET Pages, NEW l \in P,
         NEW r \in [Pages -> Nat], NEW s \in [Pages -> Nat], Ranking(P, r),
         \A v \in P \ {l} : s[v] = r[v] - (IF r[l] < r[v] THEN 1 ELSE 0)
  PROVE  Ranking(P \ {l}, s)
<1> DEFINE k == Cardinality(P)
           m == Cardinality(P \ {l})
<1>1. k \in Nat /\ m = k - 1
  BY PagesFinite, FS_RemoveElement
<1>2. \A v \in P : r[v] \in Nat /\ s[v] \in Nat
  OBVIOUS
<1>3. /\ \A u, v \in P : u # v => r[u] # r[v]
      /\ \A v \in P : r[v] < k
      /\ \A n \in 0 .. k - 1 : \E v \in P : r[v] = n
  BY DEF Ranking
<1> HIDE DEF k, m
<1>4. \A u, v \in P \ {l} : u # v => s[u] # s[v]
  BY <1>2, <1>3
<1>5. \A v \in P \ {l} : s[v] < m
  BY <1>1, <1>2, <1>3
<1>6. ASSUME NEW n \in 0 .. m - 1
      PROVE  \E v \in P \ {l} : s[v] = n
  <2>1. CASE n < r[l]
    <3>1. PICK v \in P : r[v] = n
      BY <1>1, <1>3
    <3> QED
      BY <2>1, <3>1, <1>2
  <2>2. CASE ~(n < r[l])
    <3>1. PICK v \in P : r[v] = n + 1
      BY <1>1, <1>3
    <3> QED
      BY <2>2, <3>1, <1>2
  <2> QED
    BY <2>1, <2>2
<1> QED
  BY <1>4, <1>5, <1>6 DEF Ranking, m

\* One page joins: it is the last, and all others move up.
LEMMA RankJoins ==
  ASSUME NEW P \in SUBSET Pages, NEW c \in Pages \ P,
         NEW r \in [Pages -> Nat], NEW s \in [Pages -> Nat], Ranking(P, r),
         s[c] = 0, \A v \in P : s[v] = r[v] + 1
  PROVE  Ranking(P \cup {c}, s)
<1> DEFINE k == Cardinality(P)
           m == Cardinality(P \cup {c})
<1>1. k \in Nat /\ m = k + 1
  BY PagesFinite, FS_AddElement
<1>2. \A v \in P : r[v] \in Nat /\ s[v] \in Nat
  OBVIOUS
<1>3. /\ \A u, v \in P : u # v => r[u] # r[v]
      /\ \A v \in P : r[v] < k
      /\ \A n \in 0 .. k - 1 : \E v \in P : r[v] = n
  BY DEF Ranking
<1> HIDE DEF k, m
<1>4. \A u, v \in P \cup {c} : u # v => s[u] # s[v]
  BY <1>2, <1>3
<1>5. \A v \in P \cup {c} : s[v] < m
  BY <1>1, <1>2, <1>3
<1>6. ASSUME NEW n \in 0 .. m - 1
      PROVE  \E v \in P \cup {c} : s[v] = n
  <2>1. CASE n = 0
    BY <2>1
  <2>2. CASE n # 0
    <3>1. PICK v \in P : r[v] = n - 1
      BY <1>1, <1>3, <2>2
    <3> QED
      BY <2>2, <3>1, <1>2
  <2> QED
    BY <2>1, <2>2
<1> QED
  BY <1>4, <1>5, <1>6 DEF Ranking, m

\* What Remap makes of the ranks.
Reranked(r, p, new) ==
    LET lost == {v \in Pages : p.present[v] /\ ~new.present[v]}
        come == {v \in Pages : ~p.present[v] /\ new.present[v]}
    IN  [v \in Pages |->
               IF v \in come \/ ~new.present[v] THEN 0
               ELSE r[v] + (IF come # {} THEN 1 ELSE 0)
                         - (IF \E u \in lost : r[u] < r[v] THEN 1 ELSE 0)]

\* A page table changes by one page at most each way.
SmallStep(p, new) ==
    /\ \A u, v \in Present(p) \ Present(new) : u = v
    /\ \A u, v \in Present(new) \ Present(p) : u = v

\* A page that comes takes rank 0 and moves the others up, those ranked above a page that
\* goes move down: the ranks stay the numbers below the number of present pages.
LEMMA RerankedRanking ==
  ASSUME NEW p \in PageTable, NEW new \in PageTable, SmallStep(p, new),
         NEW r \in [Pages -> Nat], Ranking(Present(p), r)
  PROVE  /\ Ranking(Present(new), Reranked(r, p, new))
         /\ Reranked(r, p, new) \in [Pages -> 0 .. NUM_PAGES - 1]
<1> DEFINE P == Present(p)
           Q == Present(new)
           L == P \ Q
           C == Q \ P
           s == Reranked(r, p, new)
           t == [v \in Pages |-> IF v \in P \ L
                                 THEN r[v] - (IF \E u \in L : r[u] < r[v] THEN 1 ELSE 0)
                                 ELSE 0]
<1>1. P \in SUBSET Pages /\ Q \in SUBSET Pages
  BY DEF Present
<1>2. (\A u, v \in L : u = v) /\ (\A u, v \in C : u = v)
  BY DEF SmallStep
<1>3. s = [v \in Pages |->
               IF v \in C \/ v \notin Q THEN 0
               ELSE r[v] + (IF C # {} THEN 1 ELSE 0)
                         - (IF \E u \in L : r[u] < r[v] THEN 1 ELSE 0)]
  <2>1. L = {v \in Pages : p.present[v] /\ ~new.present[v]}
    BY DEF Present
  <2>2. C = {v \in Pages : ~p.present[v] /\ new.present[v]}
    BY DEF Present
  <2>3. \A v \in Pages : v \notin Q <=> ~new.present[v]
    BY DEF Present
  <2> HIDE DEF L, C
  <2> QED
    BY <2>1, <2>2, <2>3 DEF Reranked
<1>4. Ranking(P, r)
  OBVIOUS
<1> HIDE DEF P, Q, s
<1>5. t \in [Pages -> Nat] /\ s \in [Pages -> Nat]
  <2>1. \A v \in Pages : (\E u \in L : r[u] < r[v]) => r[v] - 1 \in Nat
    BY <1>1
  <2> QED
    BY <2>1, <1>3
<1>6. Ranking(P \ L, t)
  <2>1. CASE L = {}
    <3>1. \A v \in P : t[v] = r[v] /\ r[v] \in Nat
      BY <1>1, <2>1
    <3>2. P \ L = P
      BY <2>1
    <3> HIDE DEF t, L
    <3>3. Ranking(P, t)
      BY <3>1, <1>4 DEF Ranking
    <3> QED
      BY <3>2, <3>3
  <2>2. CASE L # {}
    <3>1. PICK l : l \in L
      BY <2>2
    <3>2. L = {l} /\ l \in P
      BY <3>1, <1>2
    <3>3. \A v \in P \ {l} : t[v] = r[v] - (IF r[l] < r[v] THEN 1 ELSE 0)
      BY <3>2, <1>1
    <3> HIDE DEF t, L
    <3>4. Ranking(P \ {l}, t)
      BY <3>2, <3>3, <1>1, <1>4, <1>5, RankLeaves
    <3> QED
      BY <3>2, <3>4
  <2> QED
    BY <2>1, <2>2
<1>7. Q = (P \ L) \cup C
  OBVIOUS
<1>8. Ranking(Q, s)
  <2>1. CASE C = {}
    <3>1. \A v \in Q : s[v] = t[v] /\ t[v] \in Nat
      BY <1>1, <1>3, <1>5, <1>7, <2>1
    <3>2. Q = P \ L
      BY <2>1
    <3> HIDE DEF t, L, C
    <3>3. Ranking(Q, t)
      BY <3>2, <1>6
    <3> QED
      BY <3>1, <3>3 DEF Ranking
  <2>2. CASE C # {}
    <3>1. PICK c : c \in C
      BY <2>2
    <3>2. C = {c} /\ c \in Pages \ (P \ L) /\ c \in C
      BY <3>1, <1>1, <1>2
    <3>3. s[c] = 0
      BY <3>2, <1>3
    <3>4. \A v \in P \ L : v \in Pages /\ v \notin C /\ v \in Q
      BY <1>1
    <3>5. \A v \in P \ L : s[v] = t[v] + 1
      BY <3>2, <3>4, <1>3
    <3>6. P \ L \in SUBSET Pages
      BY <1>1
    <3> HIDE DEF t, L
    <3>7. Ranking((P \ L) \cup {c}, s)
      BY <3>2, <3>3, <3>5, <3>6, <1>5, <1>6, RankJoins
    <3> QED
      BY <3>2, <3>7, <1>7
  <2> QED
    BY <2>1, <2>2
<1>9. s \in [Pages -> 0 .. NUM_PAGES - 1]
  <2>1. \A v \in Q : s[v] < Cardinality(Q)
    BY <1>8 DEF Ranking
  <2>2. Cardinality(Q) \in 0 .. NUM_PAGES
    BY <1>1, PagesFinite
  <2>3. \A v \in Pages : v \notin Q => s[v] = 0
    BY <1>3
  <2> HIDE DEF t, L, C
  <2>4. \A v \in Pages : s[v] \in 0 .. NUM_PAGES - 1
    BY <2>1, <2>2, <2>3, <1>5, VmAssumption
  <2> QED
    BY <2>4, <1>5
<1> QED
  BY <1>8, <1>9 DEF Q, s
--------------------------------------------------------------------------------
(* What the operations do to the page table. *)

\* Push appends a frame to a queue that is not full.
LEMMA PushIs ==
  ASSUME NEW p \in PageTable, NEW f \in Frames
  PROVE  /\ Push(p, f) \in PageTable
         /\ Push(p, f).frame_number = p.frame_number /\ Push(p, f).present = p.present
         /\ Push(p, f).used = p.used /\ Push(p, f).free_frames = p.free_frames
         /\ Push(p, f).fifo_head = p.fifo_head
         /\ p.fifo_count >= PHYSICAL_MEMORY_PAGES => Push(p, f) = p
         /\ p.fifo_count < PHYSICAL_MEMORY_PAGES =>
              /\ Push(p, f).fifo_count = p.fifo_count + 1
              /\ Push(p, f).fifo_queue =
                   [p.fifo_queue EXCEPT
                      ![(p.fifo_head + p.fifo_count) % PHYSICAL_MEMORY_PAGES] = f]
<1>1. CASE p.fifo_count < PHYSICAL_MEMORY_PAGES
  <2> DEFINE c == p.fifo_count + 1
             q == [p.fifo_queue EXCEPT
                     ![(p.fifo_head + p.fifo_count) % PHYSICAL_MEMORY_PAGES] = f]
  <2>1. Push(p, f) = [p EXCEPT !.fifo_queue = q, !.fifo_count = c]
    BY <1>1 DEF Push, PageTable
  <2>2. c \in 0 .. UINT32 - 1
    BY <1>1, VmAssumption DEF PageTable
  <2>3. q \in [Frames -> Frames]
    BY DEF PageTable
  <2>4. Push(p, f).fifo_count = c /\ Push(p, f).fifo_queue = q
    BY <2>1 DEF PageTable
  <2> HIDE DEF c, q
  <2>5. Push(p, f) \in PageTable
    BY <2>1, <2>2, <2>3 DEF PageTable
  <2>6. /\ Push(p, f).frame_number = p.frame_number /\ Push(p, f).present = p.present
        /\ Push(p, f).used = p.used /\ Push(p, f).free_frames = p.free_frames
        /\ Push(p, f).fifo_head = p.fifo_head
    BY <2>1 DEF PageTable
  <2>7. p.fifo_count \in Int
    BY VmAssumption DEF PageTable
  <2> QED
    BY <1>1, <2>4, <2>5, <2>6, <2>7, VmAssumption DEF c, q
<1>2. CASE ~(p.fifo_count < PHYSICAL_MEMORY_PAGES)
  BY <1>2, VmAssumption DEF Push
<1> QED
  BY <1>1, <1>2

\* A page of a set of pages has the least number.
LEMMA LeastPage ==
  ASSUME NEW S \in SUBSET Pages, S # {}
  PROVE  \E v \in S : \A u \in S : v <= u
<1>1. S \in SUBSET Nat
  BY DEF Pages
<1> QED
  BY <1>1, LeastElement

\* An eviction takes the frame at the head of the queue from one page that has it, if
\* any has, and moves it from the head to the tail.
LEMMA EvictIs ==
  ASSUME NEW p \in PageTable
  PROVE  LET a == EvictOldest(p)
             q == a.pt
             holders == {v \in Present(p) : p.frame_number[v] = a.frame}
         IN  /\ a.frame = p.fifo_queue[p.fifo_head] /\ a.frame \in Frames
             /\ q \in PageTable
             /\ q.frame_number = p.frame_number /\ q.used = p.used
             /\ q.free_frames = p.free_frames
             /\ q.fifo_head = (p.fifo_head + 1) % PHYSICAL_MEMORY_PAGES
             /\ \E L \in SUBSET holders :
                  /\ \A u, v \in L : u = v
                  /\ holders # {} => L # {}
                  /\ Present(q) = Present(p) \ L
             /\ p.fifo_count = PHYSICAL_MEMORY_PAGES =>
                  /\ q.fifo_count = PHYSICAL_MEMORY_PAGES
                  /\ q.fifo_queue =
                       [p.fifo_queue EXCEPT
                          ![(q.fifo_head + PHYSICAL_MEMORY_PAGES - 1) % PHYSICAL_MEMORY_PAGES]
                          = a.frame]
<1> DEFINE N == PHYSICAL_MEMORY_PAGES
           f == p.fifo_queue[p.fifo_head]
           holders == {v \in Pages : p.present[v] /\ p.frame_number[v] = f}
           L == {v \in holders : \A u \in holders : v <= u}
           h == (p.fifo_head + 1) % N
           c == (p.fifo_count - 1) % UINT32
           b == [v \in Pages |-> p.present[v] /\ v \notin L]
           popped == [p EXCEPT !.fifo_head = h, !.fifo_count = c, !.present = b]
           q == Push(popped, f)
<1>1. EvictOldest(p) = [frame |-> f, pt |-> q]
  <2>1. [p EXCEPT !.fifo_head  = (@ + 1) % PHYSICAL_MEMORY_PAGES,
                  !.fifo_count = (@ - 1) % UINT32,
                  !.present    = [v \in Pages |-> @[v] /\ v \notin L]] = popped
    BY DEF PageTable
  <2> QED
    BY <2>1, Zenon DEF EvictOldest
<1>2. f \in Frames
  BY DEF PageTable
<1>3. h \in Frames
  <2>1. p.fifo_head + 1 \in 0 .. 2 * N - 1
    BY VmAssumption DEF PageTable, Frames
  <2> QED
    BY <2>1, Wraps
<1>4. c \in 0 .. UINT32 - 1 /\ (p.fifo_count = N => c = N - 1)
  <2>1. p.fifo_count - 1 \in Int /\ UINT32 \in Nat \ {0}
    BY VmAssumption DEF PageTable
  <2>2. ASSUME p.fifo_count = N
        PROVE  c = N - 1
    <3>1. p.fifo_count - 1 \in 0 .. UINT32 - 1
      BY <2>2, VmAssumption
    <3>2. \A x \in 0 .. UINT32 - 1 : x % UINT32 = x
      BY <2>1, Z3
    <3> QED
      BY <2>2, <3>1, <3>2
  <2>3. \A x \in Int : x % UINT32 \in 0 .. UINT32 - 1
    BY <2>1, Z3
  <2> QED
    BY <2>1, <2>2, <2>3
<1>5. b \in [Pages -> BOOLEAN]
  OBVIOUS
<1> HIDE DEF f, holders, L, h, c, b
<1>6. popped \in PageTable
  BY <1>3, <1>4, <1>5 DEF PageTable
<1>7. /\ popped.fifo_head = h /\ popped.fifo_count = c /\ popped.present = b
      /\ popped.frame_number = p.frame_number /\ popped.used = p.used
      /\ popped.free_frames = p.free_frames /\ popped.fifo_queue = p.fifo_queue
  BY DEF PageTable
<1> HIDE DEF popped
<1>8. /\ q \in PageTable /\ q.frame_number = p.frame_number /\ q.used = p.used
      /\ q.free_frames = p.free_frames /\ q.fifo_head = h /\ q.present = b
  BY <1>2, <1>6, <1>7, PushIs
<1>9. ASSUME p.fifo_count = N
      PROVE  q.fifo_count = N /\ q.fifo_queue = [p.fifo_queue EXCEPT ![(h + N - 1) % N] = f]
  <2>1. c = N - 1 /\ c < N
    BY <1>4, <1>9, VmAssumption
  <2>2. q.fifo_count = c + 1 /\ q.fifo_queue = [p.fifo_queue EXCEPT ![(h + c) % N] = f]
    BY <1>2, <1>6, <1>7, <2>1, PushIs
  <2>3. h \in Int /\ h + c = h + N - 1 /\ c + 1 = N
    BY <1>3, <2>1, VmAssumption DEF Frames
  <2> QED
    BY <2>2, <2>3
<1>10. holders = {v \in Present(p) : p.frame_number[v] = f}
  BY DEF holders, Present
<1>11. L \in SUBSET holders /\ (\A u, v \in L : u = v) /\ (holders # {} => L # {})
  <2>1. holders \in SUBSET Pages
    BY DEF holders
  <2>2. \A u, v \in L : u = v
    BY <2>1 DEF L, Pages
  <2>3. holders # {} => L # {}
    BY <2>1, LeastPage DEF L
  <2> QED
    BY <2>2, <2>3 DEF L
<1>12. Present(q) = Present(p) \ L
  <2>1. \A v \in Pages : q.present[v] <=> p.present[v] /\ v \notin L
    BY <1>8 DEF b
  <2> QED
    BY <2>1 DEF Present
<1>13. EvictOldest(p).frame = f /\ EvictOldest(p).pt = q
  BY <1>1
<1> HIDE DEF q
<1>14. \E M \in SUBSET {v \in Present(p) : p.frame_number[v] = f} :
         /\ \A u, v \in M : u = v
         /\ {v \in Present(p) : p.frame_number[v] = f} # {} => M # {}
         /\ Present(q) = Present(p) \ M
  BY <1>10, <1>11, <1>12
<1>15. f = p.fifo_queue[p.fifo_head] /\ h = (p.fifo_head + 1) % PHYSICAL_MEMORY_PAGES
  BY DEF f, h
<1>16. /\ EvictOldest(p).frame = p.fifo_queue[p.fifo_head] /\ EvictOldest(p).frame \in Frames
       /\ q \in PageTable
       /\ q.frame_number = p.frame_number /\ q.used = p.used
       /\ q.free_frames = p.free_frames
       /\ q.fifo_head = (p.fifo_head + 1) % PHYSICAL_MEMORY_PAGES
       /\ p.fifo_count = PHYSICAL_MEMORY_PAGES =>
            /\ q.fifo_count = PHYSICAL_MEMORY_PAGES
            /\ q.fifo_queue =
                 [p.fifo_queue EXCEPT
                    ![(q.fifo_head + PHYSICAL_MEMORY_PAGES - 1) % PHYSICAL_MEMORY_PAGES]
                    = EvictOldest(p).frame]
  BY <1>2, <1>8, <1>9, <1>13, <1>15
<1>17. \E M \in SUBSET {v \in Present(p) : p.frame_number[v] = EvictOldest(p).frame} :
         /\ \A u, v \in M : u = v
         /\ {v \in Present(p) : p.frame_number[v] = EvictOldest(p).frame} # {} => M # {}
         /\ Present(q) = Present(p) \ M
  BY <1>13, <1>14
<1> QED
  BY <1>13, <1>16, <1>17, Zenon

\* The counter of free frames agrees with the bitmap.
Bitmap(p) == p.free_frames = PHYSICAL_MEMORY_PAGES - Cardinality(p.used)

\* A frame is free when the counter says so.
LEMMA FreeFrameExists ==
  ASSUME NEW p \in PageTable, Bitmap(p), p.free_frames # 0
  PROVE  \E f \in Unused(p) : \A g \in Unused(p) : f <= g
<1>1. Unused(p) # {}
  <2>1. p.used \in SUBSET Frames
    BY DEF PageTable
  <2>2. SUFFICES ASSUME Unused(p) = {} PROVE FALSE
    OBVIOUS
  <2>3. p.used = Frames
    BY <2>1, <2>2 DEF Unused
  <2> QED
    BY <2>3, PagesFinite, VmAssumption DEF Bitmap
<1>2. Unused(p) \in SUBSET Nat
  BY DEF Unused, Frames
<1> QED
  BY <1>1, <1>2, LeastElement

\* An allocation takes a free frame if there is one, and else a frame from one page.
LEMMA AllocateIs ==
  ASSUME NEW p \in PageTable, Bitmap(p)
  PROVE  LET a == vm_allocate_frame(p)
         IN  /\ a.frame \in Frames /\ a.pt \in PageTable /\ Bitmap(a.pt)
             /\ a.pt.frame_number = p.frame_number
             /\ Present(a.pt) \subseteq Present(p)
             /\ \A u, v \in Present(p) \ Present(a.pt) : u = v
             /\ p.free_frames = 0 => a = EvictOldest(p)
             /\ p.free_frames # 0 =>
                  /\ a.frame \notin p.used /\ a.pt.used = p.used \cup {a.frame}
                  /\ Present(a.pt) = Present(p)
                  /\ a.pt.fifo_queue = p.fifo_queue
                  /\ a.pt.fifo_head = p.fifo_head /\ a.pt.fifo_count = p.fifo_count
<1> DEFINE a == vm_allocate_frame(p)
<1>1. CASE p.free_frames = 0
  <2>1. a = EvictOldest(p)
    BY <1>1 DEF vm_allocate_frame
  <2> HIDE DEF a
  <2>2. /\ a.frame \in Frames /\ a.pt \in PageTable
        /\ a.pt.frame_number = p.frame_number /\ a.pt.used = p.used
        /\ a.pt.free_frames = p.free_frames
    BY <2>1, EvictIs, Zenon
  <2>3. PICK L \in SUBSET {v \in Present(p) : p.frame_number[v] = a.frame} :
            /\ \A u, v \in L : u = v
            /\ Present(a.pt) = Present(p) \ L
    BY <2>1, EvictIs, Zenon
  <2>4. Bitmap(a.pt)
    BY <2>2 DEF Bitmap
  <2>5. /\ Present(a.pt) \subseteq Present(p)
        /\ \A u, v \in Present(p) \ Present(a.pt) : u = v
    BY <2>3
  <2> QED
    BY <1>1, <2>1, <2>2, <2>4, <2>5 DEF a
<1>2. CASE p.free_frames # 0
  <2> DEFINE f == CHOOSE g \in Unused(p) : \A h \in Unused(p) : g <= h
             q == [p EXCEPT !.used = p.used \cup {f}, !.free_frames = p.free_frames - 1]
  <2>1. f \in Unused(p)
    BY <1>2, FreeFrameExists
  <2>2. a = [frame |-> f, pt |-> q]
    <3>1. Unused(p) # {}
      BY <2>1
    <3>2. [p EXCEPT !.used = @ \cup {f}, !.free_frames = @ - 1] = q
      BY DEF PageTable
    <3> QED
      BY <1>2, <3>1, <3>2, Zenon DEF vm_allocate_frame
  <2> HIDE DEF f
  <2>3. f \in Frames /\ f \notin p.used
    BY <2>1 DEF Unused
  <2>4. p.free_frames - 1 \in 0 .. PHYSICAL_MEMORY_PAGES
    BY <1>2, VmAssumption DEF PageTable
  <2>5. q \in PageTable
    BY <2>3, <2>4 DEF PageTable
  <2>6. /\ q.used = p.used \cup {f} /\ q.free_frames = p.free_frames - 1
        /\ q.frame_number = p.frame_number /\ q.present = p.present
        /\ q.fifo_queue = p.fifo_queue /\ q.fifo_head = p.fifo_head
        /\ q.fifo_count = p.fifo_count
    BY DEF PageTable
  <2>7. Bitmap(q)
    <3>1. IsFiniteSet(p.used) /\ Cardinality(p.used) \in Nat
      BY PagesFinite DEF PageTable
    <3>2. Cardinality(p.used \cup {f}) = Cardinality(p.used) + 1
      BY <3>1, <2>3, FS_AddElement
    <3> HIDE DEF q
    <3> QED
      BY <2>6, <3>1, <3>2, VmAssumption DEF Bitmap
  <2>8. Present(q) = Present(p)
    BY <2>6 DEF Present
  <2>9. a.frame = f /\ a.pt = q
    BY <2>2
  <2> HIDE DEF a, q
  <2> QED
    BY <1>2, <2>3, <2>5, <2>6, <2>7, <2>8, <2>9 DEF a
<1> QED
  BY <1>1, <1>2, Zenon

\* Giving a frame back changes the bitmap and the counter alone.
LEMMA FreeIs ==
  ASSUME NEW p \in PageTable, Bitmap(p), NEW f \in Frames
  PROVE  /\ vm_free_frame(p, f) \in PageTable /\ Bitmap(vm_free_frame(p, f))
         /\ Present(vm_free_frame(p, f)) = Present(p)
         /\ vm_free_frame(p, f).frame_number = p.frame_number
<1>1. CASE f \in p.used
  <2> DEFINE q == [p EXCEPT !.used = p.used \ {f}, !.free_frames = p.free_frames + 1]
  <2>1. vm_free_frame(p, f) = q
    BY <1>1 DEF vm_free_frame, PageTable
  <2>2. /\ IsFiniteSet(p.used) /\ Cardinality(p.used) \in Nat
        /\ Cardinality(p.used \ {f}) = Cardinality(p.used) - 1
        /\ Cardinality(p.used \ {f}) \in Nat
    <3>1. IsFiniteSet(p.used) /\ Cardinality(p.used) \in Nat /\ p.used \in SUBSET Frames
      BY PagesFinite DEF PageTable
    <3>2. Cardinality(p.used \ {f}) \in Nat
      BY <3>1, PagesFinite
    <3> QED
      BY <1>1, <3>1, <3>2, FS_RemoveElement
  <2>3. p.free_frames + 1 \in 0 .. PHYSICAL_MEMORY_PAGES
    BY <2>2, VmAssumption DEF PageTable, Bitmap
  <2>4. q \in PageTable
    BY <2>3 DEF PageTable
  <2>5. /\ q.used = p.used \ {f} /\ q.free_frames = p.free_frames + 1
        /\ q.frame_number = p.frame_number /\ q.present = p.present
    BY DEF PageTable
  <2> HIDE DEF q
  <2>6. Bitmap(q)
    BY <2>2, <2>5, VmAssumption DEF Bitmap
  <2> QED
    BY <2>1, <2>4, <2>5, <2>6 DEF Present
<1>2. CASE f \notin p.used
  BY <1>2 DEF vm_free_frame
<1> QED
  BY <1>1, <1>2

\* What a translation that faults makes of the page table before it queues the frame.
Installed(a, v) == [a.pt EXCEPT !.frame_number[v] = a.frame, !.present[v] = TRUE]

\* Mapping a page to the frame allocated for it adds the page to the present ones.
LEMMA InstalledIs ==
  ASSUME NEW p \in PageTable, Bitmap(p), NEW v \in Pages,
         NEW a, a = vm_allocate_frame(p)
  PROVE  /\ Installed(a, v) \in PageTable
         /\ Installed(a, v).frame_number = [p.frame_number EXCEPT ![v] = a.frame]
         /\ Present(Installed(a, v)) = Present(a.pt) \cup {v}
         /\ Installed(a, v).used = a.pt.used
         /\ Installed(a, v).free_frames = a.pt.free_frames
         /\ Installed(a, v).fifo_queue = a.pt.fifo_queue
         /\ Installed(a, v).fifo_head = a.pt.fifo_head
         /\ Installed(a, v).fifo_count = a.pt.fifo_count
<1>1. /\ a.frame \in Frames /\ a.pt \in PageTable
      /\ a.pt.frame_number = p.frame_number
  BY AllocateIs, Zenon
<1> DEFINE n == [a.pt.frame_number EXCEPT ![v] = a.frame]
           b == [a.pt.present EXCEPT ![v] = TRUE]
           m == [a.pt EXCEPT !.frame_number = n, !.present = b]
<1>2. Installed(a, v) = m
  BY <1>1 DEF Installed, PageTable
<1>3. n \in [Pages -> Frames] /\ b \in [Pages -> BOOLEAN]
  BY <1>1 DEF PageTable
<1>4. \A u \in Pages : b[u] <=> a.pt.present[u] \/ u = v
  BY <1>1 DEF PageTable
<1> HIDE DEF n, b
<1>5. m \in PageTable
  BY <1>1, <1>3 DEF PageTable
<1>6. /\ m.frame_number = n /\ m.present = b /\ m.used = a.pt.used
      /\ m.free_frames = a.pt.free_frames /\ m.fifo_queue = a.pt.fifo_queue
      /\ m.fifo_head = a.pt.fifo_head /\ m.fifo_count = a.pt.fifo_count
  BY <1>1 DEF PageTable
<1> HIDE DEF m
<1>7. Present(m) = Present(a.pt) \cup {v}
  BY <1>4, <1>6 DEF Present
<1>8. n = [p.frame_number EXCEPT ![v] = a.frame]
  BY <1>1 DEF n
<1> QED
  BY <1>2, <1>5, <1>6, <1>7, <1>8

\* A translation leaves its page present, and takes at most one other page away.
LEMMA TranslateIs ==
  ASSUME NEW p \in PageTable, Bitmap(p), NEW v \in Pages, NEW q, q = vm_translate(p, v)
  PROVE  /\ q \in PageTable /\ Bitmap(q) /\ SmallStep(p, q)
         /\ v \in Present(q) /\ Present(q) \subseteq Present(p) \cup {v}
         /\ \A u \in Pages : u # v \/ u \in Present(p) =>
                q.frame_number[u] = p.frame_number[u]
<1>1. CASE p.present[v]
  <2>1. q = p
    BY <1>1 DEF vm_translate
  <2> QED
    BY <1>1, <2>1 DEF SmallStep, Present
<1>2. CASE ~p.present[v]
  <2> DEFINE a == vm_allocate_frame(p)
             m == Installed(a, v)
  <2>1. q = Push(m, a.frame)
    BY <1>2 DEF vm_translate, Installed
  <2>2. /\ a.frame \in Frames /\ a.pt \in PageTable /\ Bitmap(a.pt)
        /\ Present(a.pt) \subseteq Present(p)
        /\ \A u, w \in Present(p) \ Present(a.pt) : u = w
    BY AllocateIs, Zenon
  <2> HIDE DEF a
  <2>3. /\ m \in PageTable
        /\ m.frame_number = [p.frame_number EXCEPT ![v] = a.frame]
        /\ Present(m) = Present(a.pt) \cup {v}
        /\ m.used = a.pt.used /\ m.free_frames = a.pt.free_frames
    BY InstalledIs DEF a
  <2> HIDE DEF m
  <2>4. /\ q \in PageTable /\ q.frame_number = m.frame_number /\ q.present = m.present
        /\ q.used = m.used /\ q.free_frames = m.free_frames
    <3>1. m \in PageTable /\ a.frame \in Frames
      BY <2>2, <2>3
    <3>2. LET z == Push(m, a.frame)
          IN  /\ z \in PageTable /\ z.frame_number = m.frame_number /\ z.present = m.present
              /\ z.used = m.used /\ z.free_frames = m.free_frames
      BY <3>1, PushIs, Zenon
    <3> QED
      BY <2>1, <3>2, Zenon
  <2>5. Present(q) = Present(a.pt) \cup {v}
    BY <2>3, <2>4 DEF Present
  <2>6. Bitmap(q)
    BY <2>2, <2>3, <2>4 DEF Bitmap
  <2>7. v \notin Present(p)
    BY <1>2 DEF Present
  <2>8. SmallStep(p, q)
    BY <2>2, <2>5, <2>7 DEF SmallStep
  <2>9. \A u \in Pages : u # v \/ u \in Present(p) => q.frame_number[u] = p.frame_number[u]
    BY <2>3, <2>4, <2>7 DEF PageTable
  <2> QED
    BY <2>2, <2>4, <2>5, <2>6, <2>8, <2>9
<1> QED
  BY <1>1, <1>2
--------------------------------------------------------------------------------
(* As long as only translations allocate, the queue lists the frames in the order *)
(* in which their pages were mapped.                                              *)

Slot(p, n) == (p.fifo_head + p.fifo_count - 1 - n) % PHYSICAL_MEMORY_PAGES

Listed(p, r) ==
    /\ \A u, v \in Present(p) : u # v => p.frame_number[u] # p.frame_number[v]
    /\ p.used = {p.frame_number[v] : v \in Present(p)}
    /\ p.fifo_count = Cardinality(Present(p)) /\ Cardinality(p.used) = p.fifo_count
    /\ \A v \in Present(p) : p.fifo_queue[Slot(p, r[v])] = p.frame_number[v]

\* The frame queued last is in a slot of its own, unless the queue is full.
LEMMA LastSlot ==
  ASSUME NEW h \in Frames, NEW c \in 0 .. PHYSICAL_MEMORY_PAGES - 1, NEW n \in 0 .. c - 1
  PROVE  /\ (h + c - 1 - n) % PHYSICAL_MEMORY_PAGES \in Frames
         /\ (h + c - 1 - n) % PHYSICAL_MEMORY_PAGES # (h + c) % PHYSICAL_MEMORY_PAGES
<1> DEFINE N == PHYSICAL_MEMORY_PAGES
<1>1. h \in 0 .. N - 1 /\ N \in Nat \ {0}
  BY VmAssumption DEF Frames
<1>2. h + c - 1 - n \in 0 .. 2 * N - 1 /\ h + c \in 0 .. 2 * N - 1
  BY <1>1
<1> QED
  BY <1>1, <1>2, Wraps

\* In a full queue the head moves on by one, and every frame one place up with it.
LEMMA FullSlots ==
  ASSUME NEW h \in Frames, NEW g, g = (h + 1) % PHYSICAL_MEMORY_PAGES
  PROVE  /\ g \in Frames
         /\ (g + PHYSICAL_MEMORY_PAGES - 1) % PHYSICAL_MEMORY_PAGES = h
         /\ (h + PHYSICAL_MEMORY_PAGES - 1 - (PHYSICAL_MEMORY_PAGES - 1)) % PHYSICAL_MEMORY_PAGES = h
         /\ \A n \in 0 .. PHYSICAL_MEMORY_PAGES - 2 :
              (g + PHYSICAL_MEMORY_PAGES - 1 - (n + 1)) % PHYSICAL_MEMORY_PAGES
                = (h + PHYSICAL_MEMORY_PAGES - 1 - n) % PHYSICAL_MEMORY_PAGES
<1> DEFINE N == PHYSICAL_MEMORY_PAGES
<1>1. h \in 0 .. N - 1 /\ N \in Nat \ {0}
  BY VmAssumption DEF Frames
<1>2. g \in Frames /\ g = IF h + 1 < N THEN h + 1 ELSE 0
  <2>1. h + 1 \in 0 .. 2 * N - 1
    BY <1>1
  <2> QED
    BY <1>1, <2>1, Wraps
<1>3. (g + N - 1) % N = h
  <2>1. g + N - 1 \in 0 .. 2 * N - 1
    BY <1>1, <1>2
  <2> QED
    BY <1>1, <1>2, <2>1, Wraps
<1>4. (h + N - 1 - (N - 1)) % N = h
  <2>1. h + N - 1 - (N - 1) = h /\ h \in 0 .. 2 * N - 1
    BY <1>1
  <2> QED
    BY <1>1, <2>1, Wraps
<1>5. ASSUME NEW n \in 0 .. N - 2
      PROVE  (g + N - 1 - (n + 1)) % N = (h + N - 1 - n) % N
  <2>1. h + N - 1 - n \in 0 .. 2 * N - 1 /\ g + N - 1 - (n + 1) \in 0 .. 2 * N - 1
    BY <1>1, <1>2
  <2>2. CASE h + 1 < N
    <3>1. g + N - 1 - (n + 1) = h + N - 1 - n
      BY <1>1, <1>2, <2>2
    <3> QED
      BY <3>1
  <2>3. CASE ~(h + 1 < N)
    <3>1. h = N - 1 /\ g = 0
      BY <1>1, <1>2, <2>3
    <3>2. (h + N - 1 - n) % N = h + N - 1 - n - N
      BY <1>1, <2>1, <3>1, Wraps
    <3>3. (g + N - 1 - (n + 1)) % N = g + N - 1 - (n + 1)
      BY <1>1, <2>1, <3>1, Wraps
    <3> QED
      BY <1>1, <3>1, <3>2, <3>3
  <2> QED
    BY <2>2, <2>3
<1> QED
  BY <1>2, <1>3, <1>4, <1>5

\* A page that faults in is the last one mapped, and all others move up, unless a page
\* mapped before them left.
LEMMA RerankedIs ==
  ASSUME NEW p \in PageTable, NEW q \in PageTable, NEW v \in Pages,
         NEW r \in [Pages -> Nat], v \notin Present(p), v \in Present(q),
         Present(q) \subseteq Present(p) \cup {v},
         \A l \in Present(p) \ Present(q), u \in Present(p) : r[u] <= r[l]
  PROVE  /\ Reranked(r, p, q)[v] = 0
         /\ \A u \in Present(p) \cap Present(q) : Reranked(r, p, q)[u] = r[u] + 1
<1> DEFINE L == {w \in Pages : p.present[w] /\ ~q.present[w]}
           C == {w \in Pages : ~p.present[w] /\ q.present[w]}
<1>1. C = {v}
  BY DEF Present
<1>2. \A w \in Pages : Reranked(r, p, q)[w] =
               IF w \in C \/ ~q.present[w] THEN 0
               ELSE r[w] + (IF C # {} THEN 1 ELSE 0)
                         - (IF \E u \in L : r[u] < r[w] THEN 1 ELSE 0)
  BY DEF Reranked
<1>3. Reranked(r, p, q)[v] = 0
  BY <1>1, <1>2
<1>4. ASSUME NEW u \in Present(p) \cap Present(q)
      PROVE  Reranked(r, p, q)[u] = r[u] + 1
  <2>1. u \in Pages /\ u # v /\ q.present[u] /\ r[u] \in Nat
    BY DEF Present
  <2>2. ~\E l \in L : r[l] < r[u]
    <3>1. \A l \in L : l \in Present(p) \ Present(q) /\ r[l] \in Nat
      BY DEF Present
    <3> HIDE DEF L
    <3> QED
      BY <2>1, <3>1
  <2> HIDE DEF C, L
  <2> QED
    BY <1>1, <1>2, <2>1, <2>2
<1> QED
  BY <1>3, <1>4

\* A fault that finds a free frame appends it to the queue.
LEMMA FreshListed ==
  ASSUME NEW p \in PageTable, Bitmap(p), p.free_frames # 0, NEW v \in Pages, v \notin Present(p),
         NEW r \in [Pages -> Nat], Ranking(Present(p), r), Listed(p, r),
         NEW q, q = vm_translate(p, v)
  PROVE  Listed(q, Reranked(r, p, q))
<1> DEFINE N == PHYSICAL_MEMORY_PAGES
           P == Present(p)
           c == p.fifo_count
           h == p.fifo_head
           a == vm_allocate_frame(p)
           f == a.frame
           m == Installed(a, v)
           s == Reranked(r, p, q)
<1>1. q = Push(m, f)
  BY DEF vm_translate, Installed, Present
<1>2. /\ f \in Frames /\ f \notin p.used /\ a.pt.used = p.used \cup {f}
      /\ Present(a.pt) = P
      /\ a.pt.fifo_queue = p.fifo_queue /\ a.pt.fifo_head = h /\ a.pt.fifo_count = c
  BY AllocateIs, Zenon
<1>3. /\ m \in PageTable /\ m.frame_number = [p.frame_number EXCEPT ![v] = f]
      /\ Present(m) = Present(a.pt) \cup {v} /\ m.used = a.pt.used
      /\ m.fifo_queue = a.pt.fifo_queue /\ m.fifo_head = a.pt.fifo_head
      /\ m.fifo_count = a.pt.fifo_count
  BY InstalledIs
<1> HIDE DEF a, m
<1>4. /\ c = Cardinality(P) /\ Cardinality(p.used) = c /\ c \in Nat /\ c < N
      /\ P \in SUBSET Pages /\ h \in Frames
  <2>1. P \in SUBSET Pages /\ h \in Frames /\ p.free_frames \in 0 .. N
    BY DEF PageTable, Present
  <2>2. c = Cardinality(P) /\ Cardinality(p.used) = c
    BY DEF Listed
  <2>3. c \in Nat
    BY <2>1, <2>2, PagesFinite
  <2> QED
    BY <2>1, <2>2, <2>3, VmAssumption DEF Bitmap
<1>5. q \in PageTable
  BY TranslateIs
<1>6. /\ q.frame_number = [p.frame_number EXCEPT ![v] = f] /\ q.used = p.used \cup {f}
      /\ q.fifo_head = h /\ q.fifo_count = c + 1 /\ Present(q) = P \cup {v}
      /\ q.fifo_queue = [p.fifo_queue EXCEPT ![(h + c) % N] = f]
  <2>1. m.fifo_count < N /\ m.fifo_count = c /\ m.fifo_head = h
    BY <1>2, <1>3, <1>4
  <2>2. LET z == Push(m, f)
        IN  /\ z.frame_number = m.frame_number /\ z.present = m.present
            /\ z.used = m.used /\ z.fifo_head = m.fifo_head
            /\ z.fifo_count = m.fifo_count + 1
            /\ z.fifo_queue = [m.fifo_queue EXCEPT ![(m.fifo_head + m.fifo_count) % N] = f]
    BY <1>2, <1>3, <2>1, PushIs, Zenon
  <2>3. Present(q) = Present(m)
    BY <1>1, <2>2 DEF Present
  <2> QED
    BY <1>1, <1>2, <1>3, <2>2, <2>3
<1>7. s[v] = 0 /\ \A u \in P : s[u] = r[u] + 1
  <2>1. /\ v \in Present(q) /\ Present(q) \subseteq Present(p) \cup {v}
        /\ Present(p) \cap Present(q) = P /\ Present(p) \ Present(q) = {}
    BY <1>6
  <2> QED
    BY <1>5, <2>1, RerankedIs
<1>8. \A u \in P : u \in Pages /\ r[u] \in 0 .. c - 1
  BY <1>4 DEF Ranking
<1>9. /\ \A u, w \in P : u # w => p.frame_number[u] # p.frame_number[w]
      /\ p.used = {p.frame_number[u] : u \in P}
      /\ \A u \in P : p.fifo_queue[(h + c - 1 - r[u]) % N] = p.frame_number[u]
  BY DEF Listed, Slot
<1>10. /\ p.frame_number \in [Pages -> Frames] /\ p.fifo_queue \in [Frames -> Frames]
       /\ p.used \in SUBSET Frames /\ v \notin P
  BY DEF PageTable
<1> HIDE DEF P, c, h, f, s
<1>11. \A u \in P : q.frame_number[u] = p.frame_number[u] /\ p.frame_number[u] # f
  BY <1>2, <1>6, <1>8, <1>9, <1>10
<1>12. q.frame_number[v] = f
  BY <1>6, <1>10
<1>13. \A u, w \in Present(q) : u # w => q.frame_number[u] # q.frame_number[w]
  BY <1>6, <1>9, <1>11, <1>12
<1>14. q.used = {q.frame_number[u] : u \in Present(q)}
  BY <1>6, <1>9, <1>11, <1>12
<1>15. q.fifo_count = Cardinality(Present(q)) /\ Cardinality(q.used) = q.fifo_count
  <2>1. Cardinality(P \cup {v}) = Cardinality(P) + 1
    BY <1>4, <1>10, PagesFinite, FS_AddElement
  <2>2. Cardinality(p.used \cup {f}) = Cardinality(p.used) + 1
    BY <1>2, <1>10, PagesFinite, FS_AddElement
  <2> QED
    BY <1>4, <1>6, <2>1, <2>2
<1>16. ASSUME NEW u \in Present(q)
       PROVE  q.fifo_queue[Slot(q, s[u])] = q.frame_number[u]
  <2>1. Slot(q, s[u]) = (h + (c + 1) - 1 - s[u]) % N
    BY <1>6 DEF Slot
  <2>2. h \in Int /\ c \in Int
    BY <1>4, VmAssumption DEF Frames
  <2>3. CASE u = v
    <3>1. h + (c + 1) - 1 - s[u] = h + c
      BY <1>7, <2>2, <2>3
    <3>2. h + c \in 0 .. 2 * N - 1
      BY <1>4, VmAssumption DEF Frames
    <3>3. (h + c) % N \in Frames
      BY <3>2, Wraps
    <3>4. q.fifo_queue[(h + c) % N] = f
      BY <1>6, <1>10, <3>3
    <3> QED
      BY <1>12, <2>1, <2>3, <3>1, <3>4
  <2>4. CASE u # v
    <3>1. u \in P
      BY <1>6, <2>4
    <3>2. h + (c + 1) - 1 - s[u] = h + c - 1 - r[u]
      BY <1>7, <1>8, <2>2, <3>1
    <3>3. /\ (h + c - 1 - r[u]) % N \in Frames
          /\ (h + c - 1 - r[u]) % N # (h + c) % N
      <4>1. c \in 0 .. N - 1 /\ r[u] \in 0 .. c - 1
        BY <1>4, <1>8, <3>1, VmAssumption
      <4> QED
        BY <1>4, <4>1, LastSlot
    <3>4. q.fifo_queue[(h + c - 1 - r[u]) % N] = p.fifo_queue[(h + c - 1 - r[u]) % N]
      BY <1>6, <1>10, <3>3
    <3> QED
      BY <1>9, <1>11, <2>1, <3>1, <3>2, <3>4
  <2> QED
    BY <2>3, <2>4
<1> QED
  BY <1>13, <1>14, <1>15, <1>16 DEF Listed, s

\* A fault that finds none takes the frame of the page mapped longest ago.
LEMMA EvictedListed ==
  ASSUME NEW p \in PageTable, Bitmap(p), p.free_frames = 0, NEW v \in Pages, v \notin Present(p),
         NEW r \in [Pages -> Nat], Ranking(Present(p), r), Listed(p, r),
         NEW q, q = vm_translate(p, v)
  PROVE  Listed(q, Reranked(r, p, q))
<1> DEFINE N == PHYSICAL_MEMORY_PAGES
           P == Present(p)
           h == p.fifo_head
           g == (h + 1) % N
           a == vm_allocate_frame(p)
           f == a.frame
           m == Installed(a, v)
           s == Reranked(r, p, q)
<1>1. q = Push(m, f) /\ a = EvictOldest(p)
  BY DEF vm_translate, vm_allocate_frame, Installed, Present
<1>2. /\ p.fifo_count = N /\ Cardinality(P) = N /\ Cardinality(p.used) = N
      /\ P \in SUBSET Pages /\ h \in Frames
  <2>1. P \in SUBSET Pages /\ h \in Frames /\ p.used \in SUBSET Frames
    BY DEF PageTable, Present
  <2>2. p.fifo_count = Cardinality(P) /\ Cardinality(p.used) = p.fifo_count
    BY DEF Listed
  <2>3. Cardinality(p.used) = N
    BY <2>1, PagesFinite, VmAssumption DEF Bitmap
  <2> QED
    BY <2>1, <2>2, <2>3
<1>3. /\ \A u, w \in P : u # w => p.frame_number[u] # p.frame_number[w]
      /\ p.used = {p.frame_number[u] : u \in P}
      /\ \A u \in P : p.fifo_queue[(h + N - 1 - r[u]) % N] = p.frame_number[u]
  BY <1>2 DEF Listed, Slot
<1>4. /\ \A u, w \in P : u # w => r[u] # r[w]
      /\ \A u \in P : u \in Pages /\ r[u] \in 0 .. N - 1
      /\ \A n \in 0 .. N - 1 : \E u \in P : r[u] = n
  <2>1. \A u \in P : u \in Pages /\ r[u] \in Nat
    BY <1>2
  <2> HIDE DEF P
  <2>2. /\ \A u, w \in P : u # w => r[u] # r[w]
        /\ \A u \in P : r[u] < N
        /\ \A n \in 0 .. N - 1 : \E u \in P : r[u] = n
    BY <1>2 DEF Ranking, P
  <2> QED
    BY <2>1, <2>2, VmAssumption
<1>5. /\ p.frame_number \in [Pages -> Frames] /\ p.fifo_queue \in [Frames -> Frames]
      /\ p.used \in SUBSET Frames
  BY DEF PageTable
<1>6. /\ f = p.fifo_queue[h] /\ f \in Frames
      /\ a.pt.used = p.used /\ a.pt.fifo_head = g /\ a.pt.fifo_count = N
      /\ a.pt.fifo_queue = [p.fifo_queue EXCEPT ![(a.pt.fifo_head + N - 1) % N] = f]
  BY <1>1, <1>2, EvictIs, Zenon
<1>7. PICK L \in SUBSET {u \in P : p.frame_number[u] = f} :
          /\ \A u, w \in L : u = w
          /\ {u \in P : p.frame_number[u] = f} # {} => L # {}
          /\ Present(a.pt) = P \ L
  <2> DEFINE e == EvictOldest(p)
  <2>1. \E L \in SUBSET {u \in P : p.frame_number[u] = e.frame} :
          /\ \A u, w \in L : u = w
          /\ {u \in P : p.frame_number[u] = e.frame} # {} => L # {}
          /\ Present(e.pt) = P \ L
    BY EvictIs, Zenon
  <2>2. a = e
    BY <1>1
  <2> HIDE DEF a, e, P
  <2> QED
    BY <2>1, <2>2
<1>8. /\ m \in PageTable /\ m.frame_number = [p.frame_number EXCEPT ![v] = f]
      /\ Present(m) = Present(a.pt) \cup {v} /\ m.used = a.pt.used
      /\ m.fifo_queue = a.pt.fifo_queue /\ m.fifo_head = a.pt.fifo_head
      /\ m.fifo_count = a.pt.fifo_count
  BY InstalledIs
<1>9. q \in PageTable
  BY TranslateIs
<1> HIDE DEF a, m, f
<1>10. q = m
  <2>1. m.fifo_count >= N
    BY <1>6, <1>8, VmAssumption
  <2> QED
    BY <1>1, <1>6, <1>8, <2>1, PushIs, Zenon
<1>11. /\ g \in Frames /\ (g + N - 1) % N = h /\ (h + N - 1 - (N - 1)) % N = h
       /\ \A n \in 0 .. N - 2 : (g + N - 1 - (n + 1)) % N = (h + N - 1 - n) % N
  BY <1>2, FullSlots
<1> HIDE DEF g, h, P, s
<1>12. PICK l \in P : r[l] = N - 1
  BY <1>4, VmAssumption
<1>13. p.frame_number[l] = f
  BY <1>3, <1>6, <1>11, <1>12
<1>14. {u \in P : p.frame_number[u] = f} = {l}
  BY <1>3, <1>13
<1>15. L = {l}
  BY <1>7, <1>14
<1>16. Present(q) = (P \ {l}) \cup {v} /\ v \notin P
  BY <1>7, <1>8, <1>10, <1>15 DEF P
<1>17. q.fifo_head = g /\ q.fifo_count = N /\ q.fifo_queue = p.fifo_queue /\ q.used = p.used
  <2>1. q.fifo_queue = [p.fifo_queue EXCEPT ![h] = f]
    BY <1>6, <1>8, <1>10, <1>11
  <2>2. [p.fifo_queue EXCEPT ![h] = f] = p.fifo_queue
    BY <1>2, <1>5, <1>6
  <2> QED
    BY <1>6, <1>8, <1>10, <2>1, <2>2
<1>18. q.frame_number[v] = f /\ \A u \in P \ {l} : q.frame_number[u] = p.frame_number[u]
  BY <1>4, <1>5, <1>8, <1>10, <1>16
<1>19. s[v] = 0 /\ \A u \in P \ {l} : s[u] = r[u] + 1
  <2>1. \A k \in {l}, u \in P : r[u] <= r[k]
    BY <1>4, <1>12, VmAssumption
  <2> USE DEF P, s
  <2>2. /\ v \in Present(q) /\ Present(q) \subseteq Present(p) \cup {v}
        /\ Present(p) \cap Present(q) = P \ {l} /\ Present(p) \ Present(q) = {l}
    BY <1>16, <1>12
  <2> QED
    BY <1>9, <2>1, <2>2, RerankedIs
<1>20. \A u \in P \ {l} : r[u] \in 0 .. N - 2
  BY <1>4, <1>12, VmAssumption
<1>21. \A u, w \in Present(q) : u # w => q.frame_number[u] # q.frame_number[w]
  BY <1>3, <1>13, <1>16, <1>18
<1>22. q.used = {q.frame_number[u] : u \in Present(q)}
  BY <1>3, <1>13, <1>16, <1>17, <1>18
<1>23. q.fifo_count = Cardinality(Present(q)) /\ Cardinality(q.used) = q.fifo_count
  <2>1. IsFiniteSet(P) /\ IsFiniteSet(P \ {l}) /\ Cardinality(P \ {l}) = N - 1
    BY <1>2, <1>12, PagesFinite, FS_RemoveElement
  <2>2. Cardinality((P \ {l}) \cup {v}) = Cardinality(P \ {l}) + 1
    BY <1>16, <2>1, FS_AddElement
  <2> QED
    BY <1>2, <1>16, <1>17, <2>1, <2>2, VmAssumption
<1>24. ASSUME NEW u \in Present(q)
       PROVE  q.fifo_queue[Slot(q, s[u])] = q.frame_number[u]
  <2>1. Slot(q, s[u]) = (g + N - 1 - s[u]) % N
    BY <1>17 DEF Slot
  <2>2. CASE u = v
    <3>1. g + N - 1 - s[u] = g + N - 1
      BY <1>11, <1>19, <2>2, VmAssumption DEF Frames
    <3> QED
      BY <1>6, <1>11, <1>17, <1>18, <2>1, <2>2, <3>1
  <2>3. CASE u # v
    <3>1. u \in P \ {l}
      BY <1>16, <2>3
    <3>2. s[u] = r[u] + 1 /\ r[u] \in 0 .. N - 2
      BY <1>19, <1>20, <3>1
    <3>3. Slot(q, s[u]) = (h + N - 1 - r[u]) % N
      BY <1>11, <2>1, <3>2
    <3> QED
      BY <1>3, <1>17, <1>18, <3>1, <3>3
  <2> QED
    BY <2>2, <2>3
<1> QED
  BY <1>21, <1>22, <1>23, <1>24 DEF Listed, s

\* A translation keeps the order of the queue, whichever way it goes.
LEMMA TranslateListed ==
  ASSUME NEW p \in PageTable, Bitmap(p), NEW v \in Pages,
         NEW r \in [Pages -> Nat], Ranking(Present(p), r), Listed(p, r),
         NEW q, q = vm_translate(p, v)
  PROVE  Listed(q, Reranked(r, p, q))
<1>1. CASE v \in Present(p)
  <2>1. q = p
    BY <1>1 DEF vm_translate, Present
  <2>2. \A u \in Present(p) : u \in Pages /\ p.present[u]
    BY DEF Present
  <2>3. {w \in Pages : p.present[w] /\ ~p.present[w]} = {}
    OBVIOUS
  <2>4. {w \in Pages : ~p.present[w] /\ p.present[w]} = {}
    OBVIOUS
  <2>5. \A u \in Pages : Reranked(r, p, p)[u] = IF ~p.present[u] THEN 0 ELSE r[u] + 0 - 0
    BY <2>3, <2>4 DEF Reranked
  <2>6. \A u \in Present(p) : Reranked(r, p, p)[u] = r[u]
    <3>1. \A u \in Pages : r[u] \in Nat
      OBVIOUS
    <3> QED
      BY <3>1, <2>2, <2>5
  <2> DEFINE s == Reranked(r, p, p)
  <2> HIDE DEF s
  <2>7. \A u \in Present(p) : Slot(p, s[u]) = Slot(p, r[u])
    BY <2>6 DEF s
  <2>8. Listed(p, s)
    BY <2>7 DEF Listed
  <2> QED
    BY <2>1, <2>8 DEF s
<1>2. CASE v \notin Present(p) /\ p.free_frames # 0
  BY <1>2, FreshListed
<1>3. CASE v \notin Present(p) /\ p.free_frames = 0
  BY <1>3, EvictedListed
<1> QED
  BY <1>1, <1>2, <1>3
--------------------------------------------------------------------------------
(* The inductive invariant. *)

\* The times at which pages were looked up are different, the time in a TLB entry is
\* that of its page, and under LRU a page the TLB lost is older than all it holds.
Stamped ==
    /\ \A u, v \in Pages : u # v /\ accessed[u] > 0 => accessed[u] # accessed[v]
    /\ \A v \in Pages : accessed[v] <= clock
    /\ \A i \in Slots : tlb[i].valid =>
          tlb[i].lru = accessed[tlb[i].vpn] /\ accessed[tlb[i].vpn] > 0
    /\ policy = "LRU" =>
          \A v \in Pages : accessed[v] > 0 /\ Hits(v) = {} =>
              \A i \in Slots : tlb[i].valid /\ accessed[v] < accessed[tlb[i].vpn]

VmInv ==
    /\ VmTypeOK
    /\ Bitmap(pt)
    /\ Ranking(Present(pt), rank)
    /\ direct = 0 => Listed(pt, rank)
    /\ TlbAgrees
    /\ Stamped

TlbEntry == [valid : BOOLEAN, vpn : Pages, pfn : Frames, lru : 0 .. MaxLookups]

\* The types of the variables of the virtual memory, one by one.
LEMMA VmTypes ==
  ASSUME VmTypeOK
  PROVE  /\ pt \in PageTable /\ tlb \in [Slots -> TlbEntry] /\ clock \in 0 .. MaxLookups
         /\ rank \in [Pages -> Nat] /\ accessed \in [Pages -> 0 .. MaxLookups]
         /\ \A i \in Slots : tlb[i].vpn \in Pages /\ tlb[i].valid \in BOOLEAN
         /\ \A v \in Pages : accessed[v] \in Nat
         /\ \A v \in Pages : accessed[v] \in 0 .. MaxLookups
<1>1. rank \in [Pages -> Nat]
  BY DEF VmTypeOK
<1>2. pt \in PageTable
  BY DEF VmTypeOK, PageTable
<1>3. tlb \in [Slots -> TlbEntry]
  BY DEF VmTypeOK, TlbEntry
<1>4. \A i \in Slots : tlb[i].vpn \in Pages /\ tlb[i].valid \in BOOLEAN
  BY <1>3 DEF TlbEntry
<1> QED
  BY <1>1, <1>2, <1>3, <1>4 DEF VmTypeOK

\* What the histories say of a small step of the page table.
LEMMA RemapKeeps ==
  ASSUME VmTypeOK, Ranking(Present(pt), rank), NEW new \in PageTable,
         SmallStep(pt, new), Remap(new)
  PROVE  /\ pt' = new /\ rank' = Reranked(rank, pt, new)
         /\ rank' \in [Pages -> 0 .. NUM_PAGES - 1] /\ evicted' \in BOOLEAN
         /\ Ranking(Present(new), rank')
         /\ ~evicted' => ~evicted /\ Present(pt) \subseteq Present(new)
<1>1. pt' = new /\ rank' = Reranked(rank, pt, new)
  BY Zenon DEF Remap, Reranked
<1>2. Ranking(Present(new), rank') /\ rank' \in [Pages -> 0 .. NUM_PAGES - 1]
  BY <1>1, VmTypes, RerankedRanking
<1>3. evicted' = (evicted \/ {v \in Pages : pt.present[v] /\ ~new.present[v]} # {})
  BY Zenon DEF Remap
<1>4. evicted' \in BOOLEAN
  BY <1>3
<1>5. ~evicted' => ~evicted /\ Present(pt) \subseteq Present(new)
  BY <1>3 DEF Present
<1> QED
  BY <1>1, <1>2, <1>4, <1>5

\* While the TLB stands still it agrees with a page table that gave no page a new frame.
LEMMA AgreesStays ==
  ASSUME VmTypeOK, TlbAgrees, UNCHANGED tlb,
         ~evicted' => ~evicted /\ Present(pt) \subseteq Present(pt'),
         \A u \in Present(pt) : pt'.frame_number[u] = pt.frame_number[u]
  PROVE  TlbAgrees'
<1>1. \A i \in Slots : tlb[i].vpn \in Pages
  BY VmTypes
<1>2. \A i, j \in Slots :
        i # j /\ tlb'[i].valid /\ tlb'[j].valid => tlb'[i].vpn # tlb'[j].vpn
  BY DEF TlbAgrees
<1>3. ASSUME NEW i \in Slots, tlb'[i].valid, ~evicted'
      PROVE  pt'.present[tlb'[i].vpn] /\ tlb'[i].pfn = pt'.frame_number[tlb'[i].vpn]
  <2>1. tlb[i].valid /\ ~evicted
    BY <1>3
  <2>2. pt.present[tlb[i].vpn] /\ tlb[i].pfn = pt.frame_number[tlb[i].vpn]
    BY <2>1 DEF TlbAgrees
  <2>3. tlb[i].vpn \in Present(pt)
    BY <1>1, <2>2 DEF Present
  <2>4. tlb[i].vpn \in Present(pt')
    BY <1>3, <2>3
  <2> QED
    BY <2>2, <2>3, <2>4 DEF Present
<1> QED
  BY <1>2, <1>3 DEF TlbAgrees

\* Nothing is said anew of the stamps when neither they nor the TLB change.
LEMMA StampedStays ==
  ASSUME Stamped, UNCHANGED <<tlb, clock, accessed, policy>>
  PROVE  Stamped'
BY DEF Stamped, Hits

\* At the start no page is present and the TLB is empty.
LEMMA VmInitInv == VmInit => VmInv
<1> SUFFICES ASSUME VmInit PROVE VmInv
  OBVIOUS
<1> USE VmAssumption
<1>1. VmTypeOK
  <2>1. pt \in PageTable
    BY DEF VmInit, PageTable, Frames, Pages
  <2>2. tlb \in [Slots -> TlbEntry]
    BY DEF VmInit, TlbEntry, Frames, Pages
  <2>3. rank \in [Pages -> 0 .. NUM_PAGES - 1] /\ accessed \in [Pages -> 0 .. MaxLookups]
    BY DEF VmInit
  <2>4. /\ policy \in TLBReplacementPolicy /\ clock \in 0 .. MaxLookups
        /\ evicted \in BOOLEAN /\ direct \in 0 .. MaxDirect
    <3>1. policy \in TLBReplacementPolicy /\ clock = 0 /\ evicted = FALSE /\ direct = 0
      BY Zenon DEF VmInit
    <3>2. evicted \in BOOLEAN
      BY <3>1, Zenon
    <3>3. clock \in 0 .. MaxLookups /\ direct \in 0 .. MaxDirect
      BY <3>1
    <3> QED
      BY <3>1, <3>2, <3>3, Zenon
  <2> QED
    BY <2>1, <2>2, <2>3, <2>4 DEF VmTypeOK, PageTable, TlbEntry
<1>2. Present(pt) = {} /\ pt.used = {} /\ pt.fifo_count = 0
      /\ pt.free_frames = PHYSICAL_MEMORY_PAGES
  BY DEF VmInit, Present
<1>3. Cardinality({}) = 0
  BY FS_EmptySet
<1>4. Bitmap(pt)
  BY <1>2, <1>3 DEF Bitmap
<1>5. Ranking(Present(pt), rank)
  BY <1>2, <1>3 DEF Ranking
<1>6. Listed(pt, rank)
  BY <1>2, <1>3 DEF Listed
<1>7. TlbAgrees
  BY DEF VmInit, TlbAgrees
<1>8. Stamped
  BY DEF VmInit, Stamped
<1> QED
  BY <1>1, <1>4, <1>5, <1>6, <1>7, <1>8 DEF VmInv

\* The first slot of a non-empty set is one of it.
LEMMA FirstIs ==
  ASSUME NEW S \in SUBSET Slots, S # {}
  PROVE  FirstOf(S) \in S
<1>1. S \in SUBSET Nat
  BY DEF Slots
<1>2. \E i \in S : \A j \in S : i <= j
  BY <1>1, LeastElement
<1> QED
  BY <1>2 DEF FirstOf

\* The slot an insertion overwrites: an invalid one if there is one, and under LRU else
\* the one used least recently.
LEMMA VictimsIs ==
  ASSUME VmTypeOK, NEW now \in Nat, NEW i \in Victims(tlb, now)
  PROVE  /\ i \in Slots
         /\ (\E j \in Slots : ~tlb[j].valid) => ~tlb[i].valid
         /\ (\A j \in Slots : tlb[j].valid) /\ policy = "LRU" =>
                \A j \in Slots : tlb[i].lru <= tlb[j].lru
<1> DEFINE free == {j \in Slots : ~tlb[j].valid}
           least == {j \in Slots : \A k \in Slots : tlb[j].lru <= tlb[k].lru}
<1>1. CASE free # {}
  <2>1. i = FirstOf(free)
    BY <1>1, Zenon DEF Victims
  <2> QED
    BY <1>1, <2>1, FirstIs
<1>2. CASE free = {}
  <2>1. Slots # {} /\ \A j \in Slots : tlb[j].valid
    <3>1. 0 \in Slots
      BY VmAssumption DEF Slots
    <3>2. \A j \in Slots : tlb[j].valid
      BY <1>2, Zenon
    <3> QED
      BY <3>1, <3>2
  <2>2. CASE policy = "LRU"
    <3>1. i = FirstOf(least)
      BY <1>2, <2>2, Zenon DEF Victims
    <3>2. least # {}
      <4> DEFINE S == {tlb[j].lru : j \in Slots}
      <4>1. \A j \in Slots : tlb[j].lru \in Nat
        BY VmTypes, VmAssumption DEF TlbEntry
      <4>2. S \in SUBSET Nat /\ S # {}
        BY <2>1, <4>1
      <4>3. PICK x \in S : \A y \in S : x <= y
        BY <4>2, LeastElement
      <4> QED
        BY <4>3
    <3> QED
      BY <2>1, <3>1, <3>2, FirstIs
  <2>3. CASE policy = "FIFO"
    <3>1. i = now % TLB_SIZE
      BY <1>2, <2>3, Zenon DEF Victims
    <3>2. now % TLB_SIZE \in 0 .. TLB_SIZE - 1
      BY VmAssumption, Z3
    <3> QED
      BY <2>1, <2>3, <3>1, <3>2 DEF Slots
  <2>4. CASE policy # "LRU" /\ policy # "FIFO"
    <3>1. i \in Slots
      BY <1>2, <2>4, Zenon DEF Victims
    <3> QED
      BY <2>1, <2>4, <3>1
  <2> QED
    BY <2>2, <2>3, <2>4
<1> QED
  BY <1>1, <1>2

\* A lookup that hits renews the stamp of the page.
LEMMA HitInv ==
  ASSUME VmInv, NEW vpn \in Pages, TlbHit(vpn)
  PROVE  VmInv'
<1> DEFINE i == FirstOf(Hits(vpn))
<1>1. i \in Hits(vpn)
  BY FirstIs DEF TlbHit, Hits
<1> HIDE DEF i
<1>2. i \in Slots /\ tlb[i].valid /\ tlb[i].vpn = vpn
  BY <1>1 DEF Hits
<1>3. VmTypeOK /\ TlbAgrees /\ Stamped
  BY DEF VmInv
<1>4. /\ tlb \in [Slots -> TlbEntry] /\ accessed \in [Pages -> 0 .. MaxLookups]
      /\ \A j \in Slots : tlb[j].vpn \in Pages
      /\ \A v \in Pages : accessed[v] \in Nat
  BY <1>3, VmTypes
<1>5. clock' = clock + 1 /\ clock \in Nat /\ clock' \in 0 .. MaxLookups
  BY <1>3, VmAssumption DEF VmTypeOK, TlbHit
<1>6. tlb' = [tlb EXCEPT ![i].lru = clock'] /\ accessed' = [accessed EXCEPT ![vpn] = clock']
  BY DEF TlbHit, i
<1>7. UNCHANGED <<pt, policy, rank, evicted, direct>>
  BY DEF TlbHit
<1>8. /\ \A j \in Slots : tlb'[j].valid = tlb[j].valid /\ tlb'[j].vpn = tlb[j].vpn
                          /\ tlb'[j].pfn = tlb[j].pfn
      /\ \A j \in Slots : j # i => tlb'[j] = tlb[j]
      /\ tlb'[i].lru = clock'
  BY <1>2, <1>4, <1>6 DEF TlbEntry
<1>9. /\ accessed'[vpn] = clock'
      /\ \A v \in Pages : v # vpn => accessed'[v] = accessed[v]
  BY <1>4, <1>6
<1>10. tlb' \in [Slots -> TlbEntry] /\ accessed' \in [Pages -> 0 .. MaxLookups]
  <2>1. accessed' \in [Pages -> 0 .. MaxLookups]
    BY <1>4, <1>5, <1>6
  <2>2. tlb' \in [Slots -> TlbEntry]
    BY <1>2, <1>4, <1>5, <1>6 DEF TlbEntry
  <2> QED
    BY <2>1, <2>2
<1>11. VmTypeOK'
  BY <1>3, <1>5, <1>7, <1>10 DEF VmTypeOK, TlbEntry
<1>12. TlbAgrees'
  BY <1>3, <1>7, <1>8 DEF TlbAgrees
<1>13. \A v \in Pages : accessed'[v] <= clock' /\ (v # vpn => accessed[v] < clock')
  BY <1>3, <1>4, <1>5, <1>9 DEF Stamped
<1>14. \A u, v \in Pages : u # v /\ accessed'[u] > 0 => accessed'[u] # accessed'[v]
  BY <1>3, <1>4, <1>5, <1>9, <1>13 DEF Stamped
<1>15. ASSUME NEW j \in Slots, tlb'[j].valid
       PROVE  tlb'[j].lru = accessed'[tlb'[j].vpn] /\ accessed'[tlb'[j].vpn] > 0
  <2>1. CASE j = i
    BY <1>2, <1>5, <1>8, <1>9, <2>1
  <2>2. CASE j # i
    <3>1. tlb[j].valid /\ tlb'[j] = tlb[j] /\ tlb[j].vpn # vpn
      BY <1>2, <1>3, <1>8, <1>15, <2>2 DEF TlbAgrees
    <3> QED
      BY <1>3, <1>4, <1>9, <3>1 DEF Stamped
  <2> QED
    BY <2>1, <2>2
<1>16. \A v \in Pages : Hits(v)' = Hits(v)
  BY <1>8 DEF Hits
<1>17. ASSUME policy' = "LRU", NEW v \in Pages, accessed'[v] > 0, Hits(v)' = {}, NEW j \in Slots
       PROVE  tlb'[j].valid /\ accessed'[v] < accessed'[tlb'[j].vpn]
  <2>1. v # vpn /\ Hits(v) = {} /\ accessed'[v] = accessed[v]
    BY <1>1, <1>9, <1>16, <1>17
  <2>2. tlb[j].valid /\ accessed[v] < accessed[tlb[j].vpn]
    BY <1>3, <1>7, <1>17, <2>1 DEF Stamped
  <2>3. CASE tlb[j].vpn = vpn
    BY <1>8, <1>9, <1>13, <2>1, <2>2, <2>3
  <2>4. CASE tlb[j].vpn # vpn
    BY <1>4, <1>8, <1>9, <2>1, <2>2, <2>4
  <2> QED
    BY <2>3, <2>4
<1>18. Stamped'
  BY <1>13, <1>14, <1>15, <1>17 DEF Stamped
<1> QED
  BY <1>7, <1>11, <1>12, <1>18 DEF VmInv, Bitmap

\* A lookup that misses brings the page into a slot whose page, under LRU, is older
\* than all others.
LEMMA MissInv ==
  ASSUME VmInv, NEW vpn \in Pages, TlbMiss(vpn)
  PROVE  VmInv'
<1> DEFINE q == vm_translate(pt, vpn)
           e == [valid |-> TRUE, vpn |-> vpn, pfn |-> pt'.frame_number[vpn], lru |-> clock']
<1>1. VmTypeOK /\ Bitmap(pt) /\ Ranking(Present(pt), rank) /\ TlbAgrees /\ Stamped
  BY DEF VmInv
<1>2. /\ pt \in PageTable /\ tlb \in [Slots -> TlbEntry] /\ accessed \in [Pages -> 0 .. MaxLookups]
      /\ rank \in [Pages -> Nat]
      /\ \A j \in Slots : tlb[j].vpn \in Pages
      /\ \A v \in Pages : accessed[v] \in Nat
  BY <1>1, VmTypes
<1>3. clock' = clock + 1 /\ clock \in Nat /\ clock' \in 0 .. MaxLookups /\ clock' \in Nat
  BY <1>1, VmAssumption DEF VmTypeOK, TlbMiss
<1>4. Remap(q) /\ accessed' = [accessed EXCEPT ![vpn] = clock'] /\ UNCHANGED <<policy, direct>>
  BY DEF TlbMiss
<1>5. PICK i \in Victims(tlb, clock') : tlb' = [tlb EXCEPT ![i] = e]
  BY DEF TlbMiss
<1>6. /\ i \in Slots
      /\ (\E j \in Slots : ~tlb[j].valid) => ~tlb[i].valid
      /\ (\A j \in Slots : tlb[j].valid) /\ policy = "LRU" =>
             \A j \in Slots : tlb[i].lru <= tlb[j].lru
  BY <1>1, <1>3, <1>5, VictimsIs
<1>7. /\ q \in PageTable /\ Bitmap(q) /\ SmallStep(pt, q) /\ vpn \in Present(q)
      /\ \A u \in Pages : u # vpn \/ u \in Present(pt) => q.frame_number[u] = pt.frame_number[u]
  BY <1>1, <1>2, TranslateIs
<1>8. direct = 0 => Listed(q, Reranked(rank, pt, q))
  BY <1>1, <1>2, TranslateListed DEF VmInv
<1> HIDE DEF q
<1>9. /\ pt' = q /\ rank' = Reranked(rank, pt, q) /\ evicted' \in BOOLEAN
      /\ rank' \in [Pages -> 0 .. NUM_PAGES - 1] /\ Ranking(Present(q), rank')
      /\ ~evicted' => ~evicted /\ Present(pt) \subseteq Present(q)
  BY <1>1, <1>4, <1>7, RemapKeeps
<1>10. e \in TlbEntry
  BY <1>3, <1>7, <1>9 DEF TlbEntry, PageTable
<1>11. tlb' \in [Slots -> TlbEntry] /\ accessed' \in [Pages -> 0 .. MaxLookups]
  BY <1>2, <1>3, <1>4, <1>5, <1>10
<1>12. /\ tlb'[i].valid /\ tlb'[i].vpn = vpn /\ tlb'[i].lru = clock'
       /\ tlb'[i].pfn = q.frame_number[vpn]
       /\ \A j \in Slots : j # i => tlb'[j] = tlb[j]
  BY <1>2, <1>5, <1>6, <1>9
<1>13. /\ accessed'[vpn] = clock'
       /\ \A v \in Pages : v # vpn => accessed'[v] = accessed[v]
  BY <1>2, <1>4
<1>14. VmTypeOK'
  BY <1>1, <1>3, <1>4, <1>7, <1>9, <1>11 DEF VmTypeOK, PageTable, TlbEntry
<1>15. \A j \in Slots : tlb[j].valid => tlb[j].vpn # vpn
  BY DEF TlbMiss, Hits
<1>16. TlbAgrees'
  <2>1. ASSUME NEW j \in Slots, tlb'[j].valid, ~evicted'
        PROVE  q.present[tlb'[j].vpn] /\ tlb'[j].pfn = q.frame_number[tlb'[j].vpn]
    <3>1. CASE j = i
      BY <1>7, <1>12, <3>1 DEF Present
    <3>2. CASE j # i
      <4>1. tlb'[j] = tlb[j] /\ tlb[j].valid /\ ~evicted
        BY <1>9, <1>12, <2>1, <3>2
      <4>2. pt.present[tlb[j].vpn] /\ tlb[j].pfn = pt.frame_number[tlb[j].vpn]
        BY <1>1, <4>1 DEF TlbAgrees
      <4>3. tlb[j].vpn \in Present(pt) /\ tlb[j].vpn \in Pages
        BY <1>2, <4>2 DEF Present
      <4>4. tlb[j].vpn \in Present(q)
        BY <1>9, <2>1, <4>3
      <4> QED
        BY <1>7, <4>1, <4>2, <4>3, <4>4 DEF Present
    <3> QED
      BY <3>1, <3>2
  <2>2. ASSUME NEW j \in Slots, NEW k \in Slots, j # k, tlb'[j].valid, tlb'[k].valid
        PROVE  tlb'[j].vpn # tlb'[k].vpn
    BY <1>1, <1>12, <1>15, <2>2 DEF TlbAgrees
  <2> QED
    BY <1>9, <2>1, <2>2 DEF TlbAgrees
<1>17. \A v \in Pages : accessed'[v] <= clock' /\ (v # vpn => accessed[v] < clock')
  BY <1>1, <1>2, <1>3, <1>13 DEF Stamped
<1>18. \A u, v \in Pages : u # v /\ accessed'[u] > 0 => accessed'[u] # accessed'[v]
  BY <1>1, <1>2, <1>3, <1>13, <1>17 DEF Stamped
<1>19. ASSUME NEW j \in Slots, tlb'[j].valid
       PROVE  tlb'[j].lru = accessed'[tlb'[j].vpn] /\ accessed'[tlb'[j].vpn] > 0
  <2>1. CASE j = i
    BY <1>3, <1>12, <1>13, <2>1
  <2>2. CASE j # i
    <3>1. tlb[j].valid /\ tlb'[j] = tlb[j] /\ tlb[j].vpn # vpn
      BY <1>12, <1>15, <1>19, <2>2
    <3> QED
      BY <1>1, <1>2, <1>13, <3>1 DEF Stamped
  <2> QED
    BY <2>1, <2>2
<1>20. ASSUME policy' = "LRU", NEW v \in Pages, accessed'[v] > 0, Hits(v)' = {}, NEW j \in Slots
       PROVE  tlb'[j].valid /\ accessed'[v] < accessed'[tlb'[j].vpn]
  <2>1. \A k \in Slots : tlb'[k].valid => tlb'[k].vpn # v
    BY <1>20 DEF Hits
  <2>2. v # vpn /\ accessed'[v] = accessed[v] /\ policy = "LRU" /\ accessed[v] < clock'
    BY <1>4, <1>6, <1>12, <1>13, <1>17, <1>20, <2>1
  <2>3. \A k \in Slots : k # i /\ tlb[k].valid => tlb[k].vpn # v
    BY <1>12, <2>1
  <2>4. /\ \A k \in Slots : tlb[k].valid
        /\ \A k \in Slots : k # i => accessed[v] < accessed[tlb[k].vpn]
    <3>1. CASE Hits(v) = {}
      BY <1>1, <1>20, <2>2, <3>1 DEF Stamped
    <3>2. CASE Hits(v) # {}
      <4>1. tlb[i].valid /\ tlb[i].vpn = v
        BY <2>3, <3>2 DEF Hits
      <4>2. \A k \in Slots : tlb[k].valid
        BY <1>6, <4>1
      <4>3. ASSUME NEW k \in Slots, k # i
            PROVE  accessed[v] < accessed[tlb[k].vpn]
        <5>1. tlb[i].lru <= tlb[k].lru
          BY <1>6, <2>2, <4>2
        <5>2. tlb[i].lru = accessed[v] /\ tlb[k].lru = accessed[tlb[k].vpn]
          BY <1>1, <1>6, <4>1, <4>2 DEF Stamped
        <5>3. accessed[v] # accessed[tlb[k].vpn]
          <6>1. tlb[k].vpn # v /\ accessed[v] > 0
            BY <1>20, <2>2, <2>3, <4>2, <4>3
          <6> QED
            BY <1>1, <1>2, <6>1 DEF Stamped
        <5> QED
          BY <1>2, <5>1, <5>2, <5>3
      <4> QED
        BY <4>2, <4>3
    <3> QED
      BY <3>1, <3>2
  <2>5. CASE j = i
    BY <1>12, <1>13, <2>2, <2>5
  <2>6. CASE j # i
    BY <1>2, <1>12, <1>13, <1>15, <2>2, <2>4, <2>6
  <2> QED
    BY <2>5, <2>6
<1>21. Stamped'
  BY <1>17, <1>18, <1>19, <1>20 DEF Stamped
<1>22. direct' = 0 => Listed(pt, rank)'
  BY <1>4, <1>8, <1>9
<1>23. Bitmap(pt)' /\ Ranking(Present(pt), rank)'
  BY <1>7, <1>9
<1> QED
  BY <1>14, <1>16, <1>21, <1>22, <1>23 DEF VmInv

\* An operation on the page table alone.
LEMMA TableInv ==
  ASSUME VmInv, NEW new \in PageTable, Bitmap(new), SmallStep(pt, new), Remap(new),
         \A u \in Present(pt) : new.frame_number[u] = pt.frame_number[u],
         UNCHANGED <<policy, tlb, clock, accessed>>, direct' \in 0 .. MaxDirect,
         direct' = 0 => Listed(new, Reranked(rank, pt, new))
  PROVE  VmInv'
<1>1. VmTypeOK /\ Bitmap(pt) /\ Ranking(Present(pt), rank) /\ TlbAgrees /\ Stamped
  BY DEF VmInv
<1>2. /\ pt' = new /\ rank' = Reranked(rank, pt, new) /\ evicted' \in BOOLEAN
      /\ rank' \in [Pages -> 0 .. NUM_PAGES - 1] /\ Ranking(Present(new), rank')
      /\ ~evicted' => ~evicted /\ Present(pt) \subseteq Present(new)
  BY <1>1, RemapKeeps
<1>3. TlbAgrees'
  BY <1>1, <1>2, AgreesStays
<1>4. Stamped'
  BY <1>1, StampedStays
<1>5. VmTypeOK'
  BY <1>1, <1>2 DEF VmTypeOK, PageTable
<1>6. Bitmap(pt)' /\ Ranking(Present(pt), rank)' /\ (direct' = 0 => Listed(pt, rank)')
  BY <1>2
<1> QED
  BY <1>3, <1>4, <1>5, <1>6 DEF VmInv

\* A flush empties the TLB and starts the stamps afresh.
LEMMA FlushInv ==
  ASSUME VmInv, tlb_flush
  PROVE  VmInv'
<1>1. VmTypeOK /\ Bitmap(pt) /\ Ranking(Present(pt), rank) /\ (direct = 0 => Listed(pt, rank))
  BY DEF VmInv
<1>2. /\ tlb' = [j \in Slots |-> [valid |-> FALSE, vpn |-> 0, pfn |-> 0, lru |-> 0]]
      /\ accessed' = [v \in Pages |-> 0] /\ evicted' = FALSE
      /\ UNCHANGED <<pt, policy, clock, rank, direct>>
  BY DEF tlb_flush
<1>3. tlb' \in [Slots -> TlbEntry] /\ accessed' \in [Pages -> 0 .. MaxLookups]
  BY <1>2, VmAssumption DEF TlbEntry, Frames, Pages
<1>4. clock \in Nat
  BY <1>1 DEF VmTypeOK
<1>5. evicted' \in BOOLEAN
  BY <1>2, Zenon
<1>6. VmTypeOK'
  BY <1>1, <1>2, <1>3, <1>5 DEF VmTypeOK, TlbEntry
<1>7. TlbAgrees' /\ Stamped'
  BY <1>2, <1>4 DEF TlbAgrees, Stamped
<1> QED
  BY <1>1, <1>2, <1>6, <1>7 DEF VmInv

\* Every access, frame allocation, release and flush keeps the invariant.
LEMMA VmNextInv == VmInv /\ [VmNext]_vm_vars => VmInv'
<1> SUFFICES ASSUME VmInv, [VmNext]_vm_vars PROVE VmInv'
  OBVIOUS
<1>1. /\ VmTypeOK /\ Bitmap(pt) /\ Ranking(Present(pt), rank) /\ pt \in PageTable
      /\ rank \in [Pages -> Nat] /\ direct \in 0 .. MaxDirect
  <2>1. VmTypeOK /\ Bitmap(pt) /\ Ranking(Present(pt), rank)
    BY DEF VmInv
  <2>2. direct \in 0 .. MaxDirect
    BY <2>1 DEF VmTypeOK
  <2> QED
    BY <2>1, <2>2, VmTypes
<1>2. ASSUME NEW vpn \in Pages, TlbHit(vpn) PROVE VmInv'
  BY <1>2, HitInv
<1>3. ASSUME NEW vpn \in Pages, TlbMiss(vpn) PROVE VmInv'
  BY <1>3, MissInv
<1>4. ASSUME NEW vpn \in Pages, Translate(vpn) PROVE VmInv'
  <2> DEFINE q == vm_translate(pt, vpn)
  <2>1. /\ q \in PageTable /\ Bitmap(q) /\ SmallStep(pt, q)
        /\ \A u \in Pages : u # vpn \/ u \in Present(pt) => q.frame_number[u] = pt.frame_number[u]
    BY <1>1, TranslateIs
  <2>2. direct = 0 => Listed(q, Reranked(rank, pt, q))
    BY <1>1, TranslateListed DEF VmInv
  <2>3. Remap(q) /\ UNCHANGED <<policy, tlb, clock, accessed, direct>>
    BY <1>4 DEF Translate
  <2> HIDE DEF q
  <2>4. \A u \in Present(pt) : q.frame_number[u] = pt.frame_number[u]
    BY <2>1 DEF Present
  <2> QED
    BY <1>1, <2>1, <2>2, <2>3, <2>4, TableInv
<1>5. CASE AllocateFrame
  <2> DEFINE q == vm_allocate_frame(pt).pt
  <2>1. /\ q \in PageTable /\ Bitmap(q) /\ q.frame_number = pt.frame_number
        /\ Present(q) \subseteq Present(pt)
        /\ \A u, v \in Present(pt) \ Present(q) : u = v
    BY <1>1, AllocateIs, Zenon
  <2>2. /\ Remap(q) /\ UNCHANGED <<policy, tlb, clock, accessed>>
        /\ direct < MaxDirect /\ direct' = direct + 1
    BY <1>5 DEF AllocateFrame
  <2> HIDE DEF q
  <2>3. SmallStep(pt, q)
    BY <2>1 DEF SmallStep
  <2>4. direct' \in 0 .. MaxDirect /\ direct' # 0
    BY <1>1, <2>2, VmAssumption
  <2> QED
    BY <2>1, <2>2, <2>3, <2>4, TableInv
<1>6. ASSUME NEW f \in Frames, FreeFrame(f) PROVE VmInv'
  <2> DEFINE q == vm_free_frame(pt, f)
  <2>1. /\ q \in PageTable /\ Bitmap(q) /\ q.frame_number = pt.frame_number
        /\ Present(q) = Present(pt)
    BY <1>1, FreeIs
  <2>2. /\ Remap(q) /\ UNCHANGED <<policy, tlb, clock, accessed>>
        /\ direct < MaxDirect /\ direct' = direct + 1
    BY <1>6 DEF FreeFrame
  <2> HIDE DEF q
  <2>3. SmallStep(pt, q)
    BY <2>1 DEF SmallStep
  <2>4. direct' \in 0 .. MaxDirect /\ direct' # 0
    BY <1>1, <2>2, VmAssumption
  <2> QED
    BY <2>1, <2>2, <2>3, <2>4, TableInv
<1>7. CASE tlb_flush
  BY <1>7, FlushInv
<1>8. CASE UNCHANGED vm_vars
  <2>1. UNCHANGED <<pt, policy, tlb, clock, rank, accessed, evicted, direct>>
    BY <1>8 DEF vm_vars
  <2>2. VmTypeOK'
    BY <1>1, <2>1 DEF VmTypeOK
  <2>3. TlbAgrees' /\ Stamped'
    BY <2>1 DEF VmInv, TlbAgrees, Stamped, Hits
  <2> QED
    BY <1>1, <2>1, <2>2, <2>3 DEF VmInv
<1> QED
  BY <1>2, <1>3, <1>4, <1>5, <1>6, <1>7, <1>8 DEF VmNext

\* The invariant says all that TranslationSound asks.
LEMMA VmSound == VmInv => TranslationSound
<1> SUFFICES ASSUME VmInv PROVE TranslationSound
  OBVIOUS
<1>1. VmTypeOK /\ Bitmap(pt) /\ Ranking(Present(pt), rank) /\ TlbAgrees /\ Stamped
  BY DEF VmInv
<1>2. FrameTables
  <2> DEFINE present == {v \in Pages : pt.present[v]}
  <2>1. present = Present(pt)
    BY DEF Present
  <2>2. ASSUME direct = 0
        PROVE  /\ \A u, v \in present : u # v => /\ pt.frame_number[u] # pt.frame_number[v]
                                                 /\ rank[u] # rank[v]
               /\ pt.used = {pt.frame_number[v] : v \in present}
               /\ pt.fifo_count = Cardinality(pt.used)
               /\ \A v \in present : rank[v] < pt.fifo_count /\ FromTail(rank[v]) = pt.frame_number[v]
    <3>1. Listed(pt, rank)
      BY <2>2 DEF VmInv
    <3> HIDE DEF present
    <3> QED
      BY <1>1, <2>1, <3>1 DEF Listed, Ranking, FromTail, Slot
  <2> QED
    BY <1>1, <2>2, Zenon DEF FrameTables, Bitmap
<1>3. LruKeepsRecent
  BY <1>1 DEF Stamped, LruKeepsRecent
<1> QED
  BY <1>1, <1>2, <1>3 DEF TranslationSound

\* Page table, free frames, eviction queue and TLB stay in step, for every number of
\* pages, frames and slots: no two pages share a frame, the queue evicts the page that
\* has been present longest, the TLB answers as the page table does until a page is
\* evicted, and under LRU it holds the pages looked up last.
THEOREM TranslationCorrect == VmSpec => []TranslationSound
<1>1. VmSpec => []VmInv
  BY VmInitInv, VmNextInv, PTL DEF VmSpec
<1> QED
  BY <1>1, VmSound, PTL
--------------------------------------------------------------------------------
(* The routes of the interconnect. *)

\* What holds of round 0 and of each round after one of which it holds, holds of all.
LEMMA RoundsKeep ==
  ASSUME NEW P, NEW n \in Nat, 0 \in P, \A k \in 1 .. n : k - 1 \in P => k \in P
  PROVE  \A k \in 0 .. n : k \in P
<1> DEFINE Bad == {k \in 0 .. n : k \notin P}
<1>1. SUFFICES ASSUME Bad # {} PROVE FALSE
  OBVIOUS
<1>2. PICK k \in Bad : \A j \in Bad : k <= j
  <2>1. Bad \in SUBSET Nat
    OBVIOUS
  <2> QED
    BY <1>1, <2>1, LeastElement
<1>3. k # 0 /\ k \in 1 .. n /\ k - 1 \in 0 .. n
  BY <1>2
<1> QED
  BY <1>2, <1>3

\* What n rounds of f lead to from a.
Rounds(a, f, n, rec) == rec = [i \in 0 .. n |-> IF i = 0 THEN a ELSE f[rec[i - 1]]]

\* A loop is well defined.
LEMMA RoundsExist ==
  ASSUME NEW S, NEW a \in S, NEW f \in [S -> S], NEW n \in Nat
  PROVE  \E rec \in [0 .. n -> S] : Rounds(a, f, n, rec)
<1> DEFINE P == {m \in 0 .. n : \E rec \in [0 .. m -> S] : Rounds(a, f, m, rec)}
<1>1. 0 \in P
  <2>1. Rounds(a, f, 0, [k \in 0 .. 0 |-> a])
    BY DEF Rounds
  <2>2. [k \in 0 .. 0 |-> a] \in [0 .. 0 -> S]
    OBVIOUS
  <2> QED
    BY <2>1, <2>2
<1>2. ASSUME NEW m \in 1 .. n, m - 1 \in P
      PROVE  m \in P
  <2>1. PICK rec \in [0 .. m - 1 -> S] : Rounds(a, f, m - 1, rec)
    BY <1>2
  <2> DEFINE longer == [k \in 0 .. m |-> IF k < m THEN rec[k] ELSE f[rec[m - 1]]]
  <2>2. longer \in [0 .. m -> S]
    OBVIOUS
  <2>3. ASSUME NEW k \in 0 .. m
        PROVE  longer[k] = IF k = 0 THEN a ELSE f[longer[k - 1]]
    <3>1. CASE k = 0
      BY <2>1, <3>1 DEF Rounds
    <3>2. CASE k # 0 /\ k < m
      <4>1. rec[k] = f[rec[k - 1]]
        BY <2>1, <3>2 DEF Rounds
      <4> QED
        BY <3>2, <4>1
    <3>3. CASE k = m /\ k # 0
      BY <3>3
    <3> QED
      BY <3>1, <3>2, <3>3
  <2>4. Rounds(a, f, m, longer)
    BY <2>2, <2>3 DEF Rounds
  <2> QED
    BY <2>2, <2>4
<1> HIDE DEF P
<1>3. \A m \in 0 .. n : m \in P
  BY <1>1, <1>2, RoundsKeep
<1> QED
  BY <1>3 DEF P

\* A set of waits along which a rank grows has no cycle: each trimming takes the
\* channel of the highest rank away (Acyclic).
LEMMA RankedIsAcyclic ==
  ASSUME NEW waits, IsFiniteSet(waits), NEW top \in Nat, NEW grade,
         \A e \in waits : grade[e[1]] \in 0 .. top /\ grade[e[2]] \in 0 .. top /\ grade[e[1]] < grade[e[2]]
  PROVE  Acyclic(waits)
<1> DEFINE Trim(E) == {e \in E : \E f \in E : f[1] = e[2]}
           first(E) == {e[1] : e \in E}
           N == Cardinality(waits)
           K == Cardinality(first(waits))
           step == [E \in SUBSET waits |-> Trim(E)]
           Is(T) == T = [n \in 0 .. N |-> IF n = 0 THEN waits ELSE Trim(T[n - 1])]
           T == CHOOSE t : Is(t)
<1>1. N \in Nat /\ K \in Nat /\ K <= N
  <2>1. IsFiniteSet(first(waits)) /\ K <= N
    <3> DEFINE f == [e \in waits |-> e[1]]
    <3>1. f \in Surjection(waits, first(waits))
      BY DEF Surjection
    <3> QED
      BY <3>1, FS_Surjection
  <2> QED
    BY <2>1, FS_CardinalityType
<1>2. step \in [SUBSET waits -> SUBSET waits]
  OBVIOUS
<1>3. Is(T) /\ \A n \in 0 .. N : T[n] \in SUBSET waits
  <2>1. PICK rec \in [0 .. N -> SUBSET waits] : Rounds(waits, step, N, rec)
    <3> HIDE DEF step, N
    <3> QED
      BY <1>1, <1>2, RoundsExist
  <2>2. \A n \in 1 .. N : step[rec[n - 1]] = Trim(rec[n - 1])
    <3> HIDE DEF N
    <3> SUFFICES ASSUME NEW n \in 1 .. N PROVE step[rec[n - 1]] = Trim(rec[n - 1])
      OBVIOUS
    <3>1. rec[n - 1] \in SUBSET waits
      BY <1>1
    <3> QED
      BY <3>1
  <2> HIDE DEF step, Trim, N
  <2>3. Is(rec)
    <3> DEFINE g == [n \in 0 .. N |-> IF n = 0 THEN waits ELSE Trim(rec[n - 1])]
    <3>1. rec = [n \in 0 .. N |-> IF n = 0 THEN waits ELSE step[rec[n - 1]]]
      BY <2>1 DEF Rounds
    <3>2. \A n \in 0 .. N : rec[n] = IF n = 0 THEN waits ELSE step[rec[n - 1]]
      BY <3>1
    <3>3. \A n \in 0 .. N : rec[n] = g[n]
      BY <1>1, <2>2, <3>2
    <3> QED
      BY <3>1, <3>3
  <2>4. Is(T)
    BY <2>3
  <2> HIDE DEF T, Is
  <2> DEFINE P == {n \in 0 .. N : T[n] = rec[n]}
  <2>5. 0 \in P
    BY <2>3, <2>4, <1>1 DEF Is
  <2>6. ASSUME NEW n \in 1 .. N, n - 1 \in P PROVE n \in P
    BY <2>3, <2>4, <2>6, <1>1 DEF Is
  <2> HIDE DEF P
  <2>7. \A n \in 0 .. N : n \in P
    BY <2>5, <2>6, <1>1, RoundsKeep
  <2> QED
    BY <2>4, <2>7 DEF P
<1> HIDE DEF T, N, K
<1>4. T[0] = waits /\ \A n \in 1 .. N : T[n] = Trim(T[n - 1])
  <2> HIDE DEF Trim
  <2>1. T = [n \in 0 .. N |-> IF n = 0 THEN waits ELSE Trim(T[n - 1])]
    BY <1>3
  <2>2. \A n \in 0 .. N : T[n] = IF n = 0 THEN waits ELSE Trim(T[n - 1])
    BY <2>1
  <2> QED
    BY <1>1, <2>2
<1> HIDE DEF Is
<1> DEFINE P == {n \in 0 .. K : T[n] = {} \/ Cardinality(first(T[n])) + n <= K}
<1>5. \A E \in SUBSET waits : IsFiniteSet(first(E)) /\ Cardinality(first(E)) \in Nat
  <2> SUFFICES ASSUME NEW E \in SUBSET waits
               PROVE  IsFiniteSet(first(E))
    BY FS_CardinalityType
  <2> DEFINE f == [e \in E |-> e[1]]
  <2>1. f \in Surjection(E, first(E))
    BY DEF Surjection
  <2>2. IsFiniteSet(E)
    BY FS_Subset
  <2> QED
    BY <2>1, <2>2, FS_Surjection
<1>6. 0 \in P
  <2>1. Cardinality(first(T[0])) = K
    BY <1>4 DEF K
  <2> HIDE DEF first
  <2> QED
    BY <1>1, <2>1
<1>7. ASSUME NEW n \in 1 .. K, n - 1 \in P
      PROVE  n \in P
  <2> DEFINE E == T[n - 1]
             F == T[n]
  <2>1. n \in 1 .. N /\ n - 1 \in 0 .. N /\ n \in 0 .. N /\ n \in 0 .. K
    BY <1>1
  <2>2. E \in SUBSET waits /\ F = Trim(E) /\ F \in SUBSET waits
    BY <2>1, <1>3, <1>4
  <2> HIDE DEF E, F
  <2>3. CASE E = {}
    BY <2>1, <2>2, <2>3 DEF F
  <2>4. CASE E # {}
    <3>1. PICK e \in E : \A g \in E : grade[g[1]] <= grade[e[1]]
      <4> DEFINE S == {top - grade[g[1]] : g \in E}
      <4>1. S \in SUBSET Nat /\ S # {}
        BY <2>2, <2>4
      <4>2. PICK m \in S : \A k \in S : m <= k
        BY <4>1, LeastElement
      <4>3. PICK g \in E : m = top - grade[g[1]]
        BY <4>2
      <4>4. \A h \in E : top - grade[g[1]] <= top - grade[h[1]]
        BY <4>2, <4>3
      <4>5. \A h \in E : grade[h[1]] \in 0 .. top
        BY <2>2
      <4> QED
        BY <4>3, <4>4, <4>5
    <3>2. e[1] \in first(E) \ first(F)
      <4>1. ASSUME NEW g \in F, g[1] = e[1] PROVE FALSE
        <5>1. PICK h \in E : h[1] = g[2]
          BY <2>2
        <5>2. g \in waits /\ grade[g[1]] < grade[g[2]] /\ grade[h[1]] <= grade[e[1]]
          BY <2>2, <3>1
        <5>3. grade[g[1]] \in Int /\ grade[g[2]] \in Int
          BY <5>2
        <5> QED
          BY <4>1, <5>1, <5>2, <5>3
      <4> QED
        BY <4>1
    <3>3. first(F) \subseteq first(E) \ {e[1]}
      BY <2>2, <3>2
    <3>4. Cardinality(first(E)) + (n - 1) <= K
      BY <1>7, <2>4 DEF E
    <3>5. IsFiniteSet(first(E)) /\ Cardinality(first(E)) \in Nat /\ Cardinality(first(F)) \in Nat
      BY <1>5, <2>2
    <3>6. Cardinality(first(E) \ {e[1]}) = Cardinality(first(E)) - 1 /\ IsFiniteSet(first(E) \ {e[1]})
      <4> HIDE DEF first
      <4> QED
        BY <3>2, <3>5, FS_RemoveElement
    <3>7. Cardinality(first(F)) <= Cardinality(first(E)) - 1
      <4> HIDE DEF first
      <4> QED
        BY <3>3, <3>6, FS_Subset
    <3>8. Cardinality(first(F)) + n <= K
      <4> HIDE DEF first
      <4> QED
        BY <1>1, <3>4, <3>5, <3>7
    <3> QED
      BY <2>1, <3>8 DEF F
  <2> QED
    BY <2>3, <2>4
<1>8. K \in P
  <2> HIDE DEF P
  <2>1. \A k \in 0 .. K : k \in P
    BY <1>1, <1>6, <1>7, RoundsKeep
  <2> QED
    BY <1>1, <2>1
<1>9. T[K] = {}
  <2>1. SUFFICES ASSUME Cardinality(first(T[K])) + K <= K PROVE T[K] = {}
    BY <1>8
  <2>2. T[K] \in SUBSET waits
    BY <1>1, <1>3
  <2>3. IsFiniteSet(first(T[K])) /\ Cardinality(first(T[K])) = 0
    <3> HIDE DEF first
    <3>1. IsFiniteSet(first(T[K])) /\ Cardinality(first(T[K])) \in Nat
      BY <1>5, <2>2
    <3> QED
      BY <1>1, <2>1, <3>1
  <2>4. first(T[K]) = {}
    <3> HIDE DEF first
    <3> QED
      BY <2>3, FS_EmptySet
  <2> QED
    BY <2>4
<1> QED
  BY <1>9 DEF Acyclic, T, Is, N, K

\* The numbers n that divide by w with quotient y and remainder x.
LEMMA CellIs ==
  ASSUME NEW w \in Nat \ {0}, NEW y \in Nat, NEW x \in 0 .. w - 1
  PROVE  y * w + x \in Nat /\ (y * w + x) \div w = y /\ (y * w + x) % w = x
<1> DEFINE n == y * w + x
           d == n \div w
           m == n % w
<1>1. n \in Nat
  OBVIOUS
<1>2. n = w * d + m /\ d \in Nat /\ m \in 0 .. w - 1
  BY <1>1
<1>3. n = w * y + x
  OBVIOUS
<1> HIDE DEF n, d, m
<1>4. w * d \in Nat /\ w * y \in Nat /\ w * (d + 1) = w * d + w /\ w * (y + 1) = w * y + w
  BY <1>2
<1>5. ~(d < y)
  <2>1. SUFFICES ASSUME d + 1 <= y PROVE FALSE
    BY <1>2
  <2>2. w * (d + 1) <= w * y
    BY <2>1, <1>2
  <2> QED
    BY <2>2, <1>2, <1>3, <1>4
<1>6. ~(y < d)
  <2>1. SUFFICES ASSUME y + 1 <= d PROVE FALSE
    BY <1>2
  <2>2. w * (y + 1) <= w * d
    BY <2>1, <1>2
  <2> QED
    BY <2>2, <1>2, <1>3, <1>4
<1>7. d = y
  BY <1>2, <1>5, <1>6
<1> QED
  BY <1>1, <1>2, <1>3, <1>4, <1>7 DEF n, d, m

\* A node of the mesh stands in a row and a column of it.
LEMMA OnMeshIs ==
  ASSUME NEW w \in Nat \ {0}, NEW n \in Nat, n < w * w
  PROVE  n \div w \in 0 .. w - 1 /\ n % w \in 0 .. w - 1 /\ n = (n \div w) * w + (n % w)
<1> DEFINE d == n \div w
           m == n % w
<1>1. n = w * d + m /\ d \in Nat /\ m \in 0 .. w - 1
  OBVIOUS
<1> HIDE DEF d, m
<1>2. w * d = d * w /\ w * d \in Nat
  BY <1>1
<1>3. d < w
  <2>1. SUFFICES ASSUME w <= d PROVE FALSE
    BY <1>1
  <2>2. w * w <= w * d
    BY <2>1, <1>1
  <2> QED
    BY <2>2, <1>1, <1>2
<1> QED
  BY <1>1, <1>2, <1>3 DEF d, m

\* Counting below twice the number of nodes wraps once at most.
LEMMA RingWraps ==
  ASSUME NEW n \in Nat \ {0}, NEW x \in Nat, x < 2 * n
  PROVE  x % n = IF x < n THEN x ELSE x - n
BY Z3

\* A path is its first node and the nodes after it.
LEMMA Prefixed ==
  ASSUME NEW S, NEW x \in S, NEW m \in Nat, NEW f \in [1 .. m -> S]
  PROVE  /\ <<x>> \o f \in Seq(S) /\ Len(<<x>> \o f) = m + 1
         /\ \A i \in 1 .. m + 1 : (<<x>> \o f)[i] = IF i = 1 THEN x ELSE f[i - 1]
<1>1. f \in Seq(S) /\ Len(f) = m /\ <<x>> \in Seq(S) /\ Len(<<x>>) = 1
  OBVIOUS
<1>2. /\ <<x>> \o f \in Seq(S) /\ Len(<<x>> \o f) = 1 + m
      /\ \A i \in 1 .. 1 + m : (<<x>> \o f)[i] = IF i <= 1 THEN <<x>>[i] ELSE f[i - 1]
  BY <1>1, ConcatProperties
<1> QED
  BY <1>2

\* The k-th place of a walk along one axis.
Along(from, to, k) == IF from <= to THEN from + k ELSE from - k

LEMMA AlongIs ==
  ASSUME NEW from \in Nat, NEW to \in Nat
  PROVE  /\ Towards(from, to) = [k \in 1 .. Distance(from, to) |-> Along(from, to, k)]
         /\ Distance(from, to) \in Nat
         /\ \A k \in 0 .. Distance(from, to) :
               Along(from, to, k) \in Nat /\ (Along(from, to, k) <= from \/ Along(from, to, k) <= to)
         /\ Along(from, to, 0) = from /\ Along(from, to, Distance(from, to)) = to
<1>1. CASE from = to
  BY <1>1 DEF Towards, Distance, Along
<1>2. CASE from < to
  BY <1>2 DEF Towards, Distance, Along
<1>3. CASE to < from
  BY <1>3 DEF Towards, Distance, Along
<1> QED
  BY <1>1, <1>2, <1>3

\* The i-th node of a route of the mesh, and its length.
Across(w, a, b) == Distance(a % w, b % w)
Down(w, a, b)   == Distance(a \div w, b \div w)
ColumnAt(w, a, b, i) == IF i <= Across(w, a, b) + 1 THEN Along(a % w, b % w, i - 1) ELSE b % w
RowAt(w, a, b, i) ==
  IF i <= Across(w, a, b) + 1 THEN a \div w ELSE Along(a \div w, b \div w, i - 1 - Across(w, a, b))

\* A route of the mesh in closed form.
MeshPlaces(w, a, b, r) ==
  LET m == Across(w, a, b) + Down(w, a, b)
  IN  /\ Across(w, a, b) \in Nat /\ Down(w, a, b) \in Nat
      /\ r.hops = m /\ Len(r.path) = m + 1
      /\ \A i \in 1 .. m + 1 :
            /\ RowAt(w, a, b, i) \in 0 .. w - 1 /\ ColumnAt(w, a, b, i) \in 0 .. w - 1
            /\ r.path[i] \in Nat
            /\ r.path[i] = RowAt(w, a, b, i) * w + ColumnAt(w, a, b, i)
            /\ r.path[i] \div w = RowAt(w, a, b, i) /\ r.path[i] % w = ColumnAt(w, a, b, i)

\* A route goes along the row and then along the column (mesh_route).
LEMMA MeshRouteIs ==
  ASSUME NEW w \in Nat \ {0}, NEW a \in Nat, NEW b \in Nat, a < w * w, b < w * w
  PROVE  MeshPlaces(w, a, b, mesh_route(w, a, b))
<1> DEFINE sx == a % w
           dx == b % w
           sy == a \div w
           dy == b \div w
           p  == Distance(sx, dx)
           q  == Distance(sy, dy)
           along  == Towards(sx, dx)
           column == Towards(sy, dy)
           f == [i \in DOMAIN along |-> sy * w + along[i]]
           g == [i \in DOMAIN column |-> column[i] * w + dx]
           s == <<a>> \o f
           r == mesh_route(w, a, b)
<1>1. /\ sx \in 0 .. w - 1 /\ dx \in 0 .. w - 1 /\ sy \in 0 .. w - 1 /\ dy \in 0 .. w - 1
      /\ a = sy * w + sx
  BY OnMeshIs
<1>2. Across(w, a, b) = p /\ Down(w, a, b) = q
  BY DEF Across, Down
<1>3. r = [path |-> s \o g, hops |-> Len(along) + Len(column)]
  BY DEF mesh_route
<1> HIDE DEF sx, dx, sy, dy, f, g, s, r
<1>4. /\ along = [k \in 1 .. p |-> Along(sx, dx, k)] /\ p \in Nat
      /\ \A k \in 0 .. p : Along(sx, dx, k) \in 0 .. w - 1
      /\ Along(sx, dx, 0) = sx /\ Along(sx, dx, p) = dx
  <2>1. /\ Towards(sx, dx) = [k \in 1 .. Distance(sx, dx) |-> Along(sx, dx, k)]
        /\ Distance(sx, dx) \in Nat
        /\ \A k \in 0 .. Distance(sx, dx) :
              Along(sx, dx, k) \in Nat /\ (Along(sx, dx, k) <= sx \/ Along(sx, dx, k) <= dx)
        /\ Along(sx, dx, 0) = sx /\ Along(sx, dx, Distance(sx, dx)) = dx
    <3>1. sx \in Nat /\ dx \in Nat
      BY <1>1
    <3> QED
      BY <3>1, AlongIs, Zenon
  <2>2. \A k \in 0 .. Distance(sx, dx) : Along(sx, dx, k) \in 0 .. w - 1
    BY <1>1, <2>1
  <2> QED
    BY <2>1, <2>2
<1>5. /\ column = [k \in 1 .. q |-> Along(sy, dy, k)] /\ q \in Nat
      /\ \A k \in 0 .. q : Along(sy, dy, k) \in 0 .. w - 1
      /\ Along(sy, dy, 0) = sy /\ Along(sy, dy, q) = dy
  <2>1. /\ Towards(sy, dy) = [k \in 1 .. Distance(sy, dy) |-> Along(sy, dy, k)]
        /\ Distance(sy, dy) \in Nat
        /\ \A k \in 0 .. Distance(sy, dy) :
              Along(sy, dy, k) \in Nat /\ (Along(sy, dy, k) <= sy \/ Along(sy, dy, k) <= dy)
        /\ Along(sy, dy, 0) = sy /\ Along(sy, dy, Distance(sy, dy)) = dy
    <3>1. sy \in Nat /\ dy \in Nat
      BY <1>1
    <3> QED
      BY <3>1, AlongIs, Zenon
  <2>2. \A k \in 0 .. Distance(sy, dy) : Along(sy, dy, k) \in 0 .. w - 1
    BY <1>1, <2>1
  <2> QED
    BY <2>1, <2>2
<1> HIDE DEF along, column, p, q
<1>6. Len(along) = p /\ Len(column) = q /\ DOMAIN along = 1 .. p /\ DOMAIN column = 1 .. q
  BY <1>4, <1>5
<1>7. f \in [1 .. p -> Nat] /\ \A k \in 1 .. p : f[k] = sy * w + Along(sx, dx, k)
  <2>1. \A k \in 1 .. p : along[k] = Along(sx, dx, k) /\ along[k] \in 0 .. w - 1
    BY <1>4
  <2>2. \A k \in 1 .. p : sy * w + along[k] \in Nat
    BY <2>1, <1>1, CellIs
  <2> QED
    BY <1>6, <2>1, <2>2 DEF f
<1>8. g \in [1 .. q -> Nat] /\ \A k \in 1 .. q : g[k] = Along(sy, dy, k) * w + dx
  <2>1. \A k \in 1 .. q : column[k] = Along(sy, dy, k) /\ column[k] \in 0 .. w - 1
    BY <1>5
  <2>2. \A k \in 1 .. q : column[k] * w + dx \in Nat
    BY <2>1, <1>1, CellIs
  <2> QED
    BY <1>6, <2>1, <2>2 DEF g
<1>9. /\ s \in Seq(Nat) /\ Len(s) = p + 1
      /\ \A i \in 1 .. p + 1 : s[i] = IF i = 1 THEN a ELSE f[i - 1]
  <2>1. p \in Nat /\ f \in [1 .. p -> Nat]
    BY <1>4, <1>7
  <2> QED
    BY <2>1, Prefixed DEF s
<1>10. g \in Seq(Nat) /\ Len(g) = q
  <2>1. q \in Nat /\ g \in [1 .. q -> Nat]
    BY <1>5, <1>8
  <2> QED
    BY <2>1
<1>11. /\ Len(s \o g) = p + 1 + q
       /\ \A i \in 1 .. p + 1 + q : (s \o g)[i] = IF i <= p + 1 THEN s[i] ELSE g[i - (p + 1)]
  <2>1. s \in Seq(Nat) /\ Len(s) = p + 1 /\ g \in Seq(Nat) /\ Len(g) = q
    BY <1>9, <1>10
  <2>2. /\ Len(s \o g) = Len(s) + Len(g)
        /\ \A i \in 1 .. Len(s) + Len(g) : (s \o g)[i] = IF i <= Len(s) THEN s[i] ELSE g[i - Len(s)]
    BY <2>1, ConcatProperties, Zenon
  <2> QED
    BY <2>1, <2>2
<1>12. ASSUME NEW i \in 1 .. p + q + 1
       PROVE  /\ RowAt(w, a, b, i) \in 0 .. w - 1 /\ ColumnAt(w, a, b, i) \in 0 .. w - 1
              /\ r.path[i] = RowAt(w, a, b, i) * w + ColumnAt(w, a, b, i)
  <2>1. r.path[i] = IF i <= p + 1 THEN s[i] ELSE g[i - (p + 1)]
    <3>1. p \in Nat /\ q \in Nat /\ r.path = s \o g
      BY <1>3, <1>4, <1>5
    <3> QED
      BY <3>1, <1>11
  <2>2. CASE i <= p + 1
    <3>1. RowAt(w, a, b, i) = sy /\ ColumnAt(w, a, b, i) = Along(sx, dx, i - 1)
      BY <1>2, <2>2 DEF RowAt, ColumnAt, sx, sy, dx
    <3>2. i - 1 \in 0 .. p /\ i \in 1 .. p + 1
      BY <2>2, <1>4
    <3>3. r.path[i] = sy * w + Along(sx, dx, i - 1)
      <4>1. CASE i = 1
        BY <1>1, <1>4, <1>9, <2>1, <2>2, <3>2, <4>1
      <4>2. CASE i # 1
        <5>1. i - 1 \in 1 .. p
          BY <3>2, <4>2
        <5> QED
          BY <1>7, <1>9, <2>1, <2>2, <3>2, <4>2, <5>1
      <4> QED
        BY <4>1, <4>2
    <3> QED
      BY <1>1, <1>4, <3>1, <3>2, <3>3
  <2>3. CASE i > p + 1
    <3>1. RowAt(w, a, b, i) = Along(sy, dy, i - 1 - p) /\ ColumnAt(w, a, b, i) = dx
      BY <1>2, <2>3, <1>4 DEF RowAt, ColumnAt, sy, dy, dx
    <3>2. i - (p + 1) \in 1 .. q /\ i - 1 - p \in 0 .. q /\ i - (p + 1) = i - 1 - p
      BY <2>3, <1>4, <1>5
    <3>3. r.path[i] = Along(sy, dy, i - 1 - p) * w + dx
      BY <1>4, <1>8, <2>1, <2>3, <3>2
    <3> QED
      BY <1>1, <1>5, <3>1, <3>2, <3>3
  <2> QED
    BY <1>4, <2>2, <2>3
<1>13. r.hops = p + q /\ Len(r.path) = p + q + 1
  BY <1>3, <1>4, <1>5, <1>6, <1>11
<1>14. \A i \in 1 .. p + q + 1 :
          r.path[i] \in Nat /\ r.path[i] \div w = RowAt(w, a, b, i) /\ r.path[i] % w = ColumnAt(w, a, b, i)
  <2> SUFFICES ASSUME NEW i \in 1 .. p + q + 1
               PROVE  r.path[i] \in Nat /\ r.path[i] \div w = RowAt(w, a, b, i) /\ r.path[i] % w = ColumnAt(w, a, b, i)
    OBVIOUS
  <2>1. RowAt(w, a, b, i) \in Nat /\ ColumnAt(w, a, b, i) \in 0 .. w - 1
    BY <1>12
  <2>2. r.path[i] = RowAt(w, a, b, i) * w + ColumnAt(w, a, b, i)
    BY <1>12
  <2> HIDE DEF RowAt, ColumnAt
  <2>3. /\ RowAt(w, a, b, i) * w + ColumnAt(w, a, b, i) \in Nat
        /\ (RowAt(w, a, b, i) * w + ColumnAt(w, a, b, i)) \div w = RowAt(w, a, b, i)
        /\ (RowAt(w, a, b, i) * w + ColumnAt(w, a, b, i)) % w = ColumnAt(w, a, b, i)
    BY <2>1, CellIs, Zenon
  <2> QED
    BY <2>2, <2>3, Zenon
<1>15. p \in Nat /\ q \in Nat
  BY <1>4, <1>5
<1> QED
  BY <1>2, <1>12, <1>13, <1>14, <1>15 DEF r, MeshPlaces

\* Rows and columns below w make nodes of the mesh.
LEMMA CellOnMesh ==
  ASSUME NEW w \in Nat \ {0}, NEW y \in 0 .. w - 1, NEW x \in 0 .. w - 1
  PROVE  y * w + x \in 0 .. w * w - 1
<1>1. (y + 1) * w <= w * w
  BY y + 1 <= w
<1>2. (y + 1) * w = y * w + w /\ y * w \in Nat /\ w * w \in Nat
  OBVIOUS
<1> QED
  BY <1>1, <1>2

\* Each hop of a route moves by one along its row, or later along its column, always
\* the same way.
LEMMA MeshHopIs ==
  ASSUME NEW w \in Nat \ {0}, NEW a \in Nat, NEW b \in Nat, a < w * w, b < w * w,
         NEW i \in 1 .. Across(w, a, b) + Down(w, a, b)
  PROVE  /\ i <= Across(w, a, b) =>
              /\ RowAt(w, a, b, i + 1) = RowAt(w, a, b, i)
              /\ ColumnAt(w, a, b, i + 1) = ColumnAt(w, a, b, i) + (IF a % w <= b % w THEN 1 ELSE -1)
         /\ i > Across(w, a, b) =>
              /\ ColumnAt(w, a, b, i + 1) = ColumnAt(w, a, b, i)
              /\ RowAt(w, a, b, i + 1) = RowAt(w, a, b, i) + (IF a \div w <= b \div w THEN 1 ELSE -1)
<1> DEFINE sx == a % w
           dx == b % w
           sy == a \div w
           dy == b \div w
           p  == Distance(sx, dx)
           q  == Distance(sy, dy)
<1>1. sx \in Nat /\ dx \in Nat /\ sy \in Nat /\ dy \in Nat
  BY OnMeshIs
<1>2. Across(w, a, b) = p /\ Down(w, a, b) = q
  BY DEF Across, Down
<1>3. \A j : /\ ColumnAt(w, a, b, j) = IF j <= p + 1 THEN Along(sx, dx, j - 1) ELSE dx
             /\ RowAt(w, a, b, j) = IF j <= p + 1 THEN sy ELSE Along(sy, dy, j - 1 - p)
  BY <1>2 DEF ColumnAt, RowAt
<1> HIDE DEF sx, dx, sy, dy
<1>4. p \in Nat /\ q \in Nat /\ i \in 1 .. p + q
  BY <1>1, <1>2 DEF Distance
<1>5. CASE i <= p
  <2>1. /\ ColumnAt(w, a, b, i) = Along(sx, dx, i - 1) /\ ColumnAt(w, a, b, i + 1) = Along(sx, dx, i + 1 - 1)
        /\ RowAt(w, a, b, i) = sy /\ RowAt(w, a, b, i + 1) = sy
    <3>1. i <= p + 1 /\ i + 1 <= p + 1
      BY <1>4, <1>5
    <3> QED
      BY <1>3, <3>1
  <2>2. Along(sx, dx, i + 1 - 1) = Along(sx, dx, i - 1) + (IF sx <= dx THEN 1 ELSE -1)
    BY <1>1, <1>4 DEF Along
  <2> QED
    BY <1>2, <1>4, <1>5, <2>1, <2>2 DEF sx, dx
<1>6. CASE i > p
  <2> DEFINE k == i + 1
  <2>1. k = i + 1 /\ k \in Nat /\ ~(k <= p + 1)
    BY <1>4, <1>6
  <2> HIDE DEF k
  <2>2. ColumnAt(w, a, b, k) = dx /\ RowAt(w, a, b, k) = Along(sy, dy, k - 1 - p)
    BY <1>3, <2>1, Zenon
  <2>3. ColumnAt(w, a, b, i) = dx
    <3>1. CASE i <= p + 1
      <4>1. ColumnAt(w, a, b, i) = Along(sx, dx, i - 1) /\ i - 1 = p
        BY <1>3, <1>4, <1>6, <3>1
      <4>2. Along(sx, dx, p) = dx
        BY <1>1 DEF Along, Distance
      <4> QED
        BY <4>1, <4>2
    <3>2. CASE ~(i <= p + 1)
      BY <1>3, <3>2
    <3> QED
      BY <3>1, <3>2
  <2>4. RowAt(w, a, b, i) = Along(sy, dy, i - 1 - p)
    <3>1. CASE i <= p + 1
      <4>1. RowAt(w, a, b, i) = sy /\ i - 1 - p = 0
        BY <1>3, <1>4, <1>6, <3>1
      <4>2. Along(sy, dy, 0) = sy
        BY <1>1 DEF Along
      <4> QED
        BY <4>1, <4>2
    <3>2. CASE ~(i <= p + 1)
      BY <1>3, <3>2
    <3> QED
      BY <3>1, <3>2
  <2>5. Along(sy, dy, k - 1 - p) = Along(sy, dy, i - 1 - p) + (IF sy <= dy THEN 1 ELSE -1)
    BY <1>1, <1>4, <2>1 DEF Along
  <2> QED
    BY <1>2, <1>4, <1>6, <2>1, <2>2, <2>3, <2>4, <2>5 DEF sy, dy
<1> QED
  BY <1>4, <1>5, <1>6

\* A route of the mesh ends where it should, over the wires of the mesh.
MeshDelivery(w, a, b) ==
  LET r == mesh_route(w, a, b)
  IN  /\ r.path[1] = a /\ r.path[Len(r.path)] = b
      /\ r.hops = Across(w, a, b) + Down(w, a, b) /\ Len(r.path) - 1 = r.hops
      /\ \A i \in 1 .. Len(r.path) - 1 :
            \/ /\ r.path[i] \div w = r.path[i + 1] \div w
               /\ Distance(r.path[i] % w, r.path[i + 1] % w) = 1
            \/ /\ r.path[i] % w = r.path[i + 1] % w
               /\ Distance(r.path[i] \div w, r.path[i + 1] \div w) = 1

LEMMA MeshDelivers ==
  ASSUME NEW w \in Nat \ {0}, NEW a \in Nat, NEW b \in Nat, a < w * w, b < w * w
  PROVE  MeshDelivery(w, a, b)
<1> DEFINE p == Across(w, a, b)
           q == Down(w, a, b)
           path == mesh_route(w, a, b).path
<1>1. /\ p \in Nat /\ q \in Nat /\ mesh_route(w, a, b).hops = p + q /\ Len(path) = p + q + 1
      /\ \A i \in 1 .. p + q + 1 :
            /\ RowAt(w, a, b, i) \in 0 .. w - 1 /\ ColumnAt(w, a, b, i) \in 0 .. w - 1
            /\ path[i] = RowAt(w, a, b, i) * w + ColumnAt(w, a, b, i)
            /\ path[i] \div w = RowAt(w, a, b, i) /\ path[i] % w = ColumnAt(w, a, b, i)
  <2>1. MeshPlaces(w, a, b, mesh_route(w, a, b))
    BY MeshRouteIs
  <2> QED
    BY <2>1, Zenon DEF MeshPlaces
<1>2. /\ p = Distance(a % w, b % w) /\ q = Distance(a \div w, b \div w)
      /\ a % w \in Nat /\ b % w \in Nat /\ a \div w \in Nat /\ b \div w \in Nat
      /\ a = (a \div w) * w + (a % w) /\ b = (b \div w) * w + (b % w)
  BY OnMeshIs DEF Across, Down
<1>3. \A i \in 1 .. p + q :
        \/ /\ RowAt(w, a, b, i + 1) = RowAt(w, a, b, i)
           /\ ColumnAt(w, a, b, i + 1) = ColumnAt(w, a, b, i) + (IF a % w <= b % w THEN 1 ELSE -1)
        \/ /\ ColumnAt(w, a, b, i + 1) = ColumnAt(w, a, b, i)
           /\ RowAt(w, a, b, i + 1) = RowAt(w, a, b, i) + (IF a \div w <= b \div w THEN 1 ELSE -1)
  <2> SUFFICES ASSUME NEW i \in 1 .. p + q
               PROVE  \/ /\ RowAt(w, a, b, i + 1) = RowAt(w, a, b, i)
                         /\ ColumnAt(w, a, b, i + 1) = ColumnAt(w, a, b, i) + (IF a % w <= b % w THEN 1 ELSE -1)
                      \/ /\ ColumnAt(w, a, b, i + 1) = ColumnAt(w, a, b, i)
                         /\ RowAt(w, a, b, i + 1) = RowAt(w, a, b, i) + (IF a \div w <= b \div w THEN 1 ELSE -1)
    OBVIOUS
  <2>1. /\ i <= p => /\ RowAt(w, a, b, i + 1) = RowAt(w, a, b, i)
                      /\ ColumnAt(w, a, b, i + 1) = ColumnAt(w, a, b, i) + (IF a % w <= b % w THEN 1 ELSE -1)
        /\ i > p => /\ ColumnAt(w, a, b, i + 1) = ColumnAt(w, a, b, i)
                     /\ RowAt(w, a, b, i + 1) = RowAt(w, a, b, i) + (IF a \div w <= b \div w THEN 1 ELSE -1)
    BY MeshHopIs, Zenon
  <2>2. i <= p \/ i > p
    BY <1>1
  <2> QED
    BY <2>1, <2>2, Zenon
<1> DEFINE row(i) == RowAt(w, a, b, i)
           col(i) == ColumnAt(w, a, b, i)
<1> HIDE DEF path
<1>4. path[1] = a
  <2>1. RowAt(w, a, b, 1) = a \div w /\ ColumnAt(w, a, b, 1) = a % w
    <3>1. 1 <= p + 1 /\ 1 - 1 = 0
      BY <1>1
    <3>2. Along(a % w, b % w, 0) = a % w
      BY <1>2 DEF Along
    <3> QED
      BY <3>1, <3>2 DEF RowAt, ColumnAt
  <2> HIDE DEF p, q
  <2>2. 1 \in 1 .. p + q + 1
    BY <1>1
  <2>3. path[1] = RowAt(w, a, b, 1) * w + ColumnAt(w, a, b, 1)
    BY <1>1, <2>2
  <2> QED
    BY <1>2, <2>1, <2>3
<1>5. path[Len(path)] = b
  <2>1. RowAt(w, a, b, p + q + 1) = b \div w /\ ColumnAt(w, a, b, p + q + 1) = b % w
    <3> DEFINE k == p + q + 1
    <3>1. Along(a % w, b % w, p) = b % w /\ Along(a \div w, b \div w, q) = b \div w
      BY <1>2 DEF Along, Distance
    <3>2. /\ RowAt(w, a, b, k) = IF k <= p + 1 THEN a \div w ELSE Along(a \div w, b \div w, k - 1 - p)
          /\ ColumnAt(w, a, b, k) = IF k <= p + 1 THEN Along(a % w, b % w, k - 1) ELSE b % w
      BY Zenon DEF RowAt, ColumnAt
    <3>3. q = 0 => a \div w = b \div w
      BY <1>2 DEF Distance
    <3> HIDE DEF p, q
    <3>4. k = p + q + 1 /\ k \in Nat /\ p \in Nat /\ q \in Nat
      BY <1>1
    <3> HIDE DEF k
    <3>5. CASE q = 0
      <4>1. k <= p + 1 /\ k - 1 = p
        BY <3>4, <3>5
      <4> QED
        BY <3>1, <3>2, <3>3, <3>5, <4>1, Zenon DEF k
    <3>6. CASE q # 0
      <4>1. ~(k <= p + 1) /\ k - 1 - p = q
        BY <3>4, <3>6
      <4> QED
        BY <3>1, <3>2, <4>1, Zenon DEF k
    <3> QED
      BY <3>5, <3>6
  <2> HIDE DEF p, q
  <2>2. Len(path) = p + q + 1 /\ p + q + 1 \in 1 .. p + q + 1
    BY <1>1
  <2> QED
    BY <1>1, <1>2, <2>1, <2>2
<1>6. ASSUME NEW i \in 1 .. Len(path) - 1
      PROVE  \/ path[i] \div w = path[i + 1] \div w /\ Distance(path[i] % w, path[i + 1] % w) = 1
             \/ path[i] % w = path[i + 1] % w /\ Distance(path[i] \div w, path[i + 1] \div w) = 1
  <2> HIDE DEF p, q
  <2>1. i \in 1 .. p + q /\ i \in 1 .. p + q + 1 /\ i + 1 \in 1 .. p + q + 1
    BY <1>1
  <2>2. /\ path[i] \div w = row(i) /\ path[i] % w = col(i)
        /\ path[i + 1] \div w = row(i + 1) /\ path[i + 1] % w = col(i + 1)
        /\ row(i) \in Nat /\ col(i) \in Nat /\ row(i + 1) \in Nat /\ col(i + 1) \in Nat
    BY <1>1, <2>1
  <2>3. \/ row(i + 1) = row(i) /\ col(i + 1) = col(i) + (IF a % w <= b % w THEN 1 ELSE -1)
        \/ col(i + 1) = col(i) /\ row(i + 1) = row(i) + (IF a \div w <= b \div w THEN 1 ELSE -1)
    BY <1>3, <2>1
  <2> HIDE DEF row, col
  <2>4. \A x \in Nat, y \in Nat : (y = x + 1 \/ y = x - 1) => Distance(x, y) = 1
    BY DEF Distance
  <2> QED
    BY <2>2, <2>3, <2>4
<1> QED
  BY <1>1, <1>4, <1>5, <1>6 DEF path, MeshDelivery

\* The rank of a channel: along the rows first, then along the columns, each growing
\* in the direction of the channel.
MeshRank(w, c) ==
  IF c[1] \div w = c[2] \div w
  THEN IF c[1] % w < c[2] % w THEN c[2] % w ELSE w - 1 - (c[2] % w)
  ELSE w + (IF c[1] \div w < c[2] \div w THEN c[2] \div w ELSE w - 1 - (c[2] \div w))

\* The same, from columns x and rows y.
PlaceRank(w, x1, y1, x2, y2) ==
  IF y1 = y2 THEN IF x1 < x2 THEN x2 ELSE w - 1 - x2
  ELSE w + (IF y1 < y2 THEN y2 ELSE w - 1 - y2)

\* A route takes channels of growing ranks.
LEMMA MeshRankGrows ==
  ASSUME NEW w \in Nat \ {0}, NEW a \in Nat, NEW b \in Nat, a < w * w, b < w * w,
         NEW i \in 1 .. Across(w, a, b) + Down(w, a, b) - 1
  PROVE  LET path == mesh_route(w, a, b).path
             c == <<path[i], path[i + 1]>>
             d == <<path[i + 1], path[i + 2]>>
         IN  /\ c \in (0 .. w * w - 1) \X (0 .. w * w - 1) /\ d \in (0 .. w * w - 1) \X (0 .. w * w - 1)
             /\ MeshRank(w, c) \in 0 .. 2 * w /\ MeshRank(w, d) \in 0 .. 2 * w
             /\ MeshRank(w, c) < MeshRank(w, d)
<1> DEFINE p == Across(w, a, b)
           q == Down(w, a, b)
           path == mesh_route(w, a, b).path
           row(j) == RowAt(w, a, b, j)
           col(j) == ColumnAt(w, a, b, j)
           right == IF a % w <= b % w THEN 1 ELSE -1
           down  == IF a \div w <= b \div w THEN 1 ELSE -1
           k == i + 1
           l == i + 2
<1>1. /\ p \in Nat /\ q \in Nat
      /\ \A j \in 1 .. p + q + 1 :
            /\ row(j) \in 0 .. w - 1 /\ col(j) \in 0 .. w - 1
            /\ path[j] = row(j) * w + col(j)
            /\ path[j] \div w = row(j) /\ path[j] % w = col(j)
  <2>1. MeshPlaces(w, a, b, mesh_route(w, a, b))
    BY MeshRouteIs
  <2> QED
    BY <2>1, Zenon DEF MeshPlaces
<1>2. ASSUME NEW j \in 1 .. p + q
      PROVE  /\ j <= p => row(j + 1) = row(j) /\ col(j + 1) = col(j) + right
             /\ j > p => col(j + 1) = col(j) /\ row(j + 1) = row(j) + down
  BY MeshHopIs, Zenon
<1> HIDE DEF p, q, path, row, col
<1>3. /\ i \in 1 .. p + q /\ k \in 1 .. p + q /\ i \in 1 .. p + q + 1 /\ k \in 1 .. p + q + 1 /\ l \in 1 .. p + q + 1
      /\ k = i + 1 /\ l = k + 1
  BY <1>1 DEF p, q
<1> HIDE DEF k, l
<1>4. /\ i <= p => row(k) = row(i) /\ col(k) = col(i) + right
      /\ i > p => col(k) = col(i) /\ row(k) = row(i) + down
  BY <1>2, <1>3
<1>5. /\ k <= p => row(l) = row(k) /\ col(l) = col(k) + right
      /\ k > p => col(l) = col(k) /\ row(l) = row(k) + down
  BY <1>2, <1>3
<1>6. right \in {1, -1} /\ down \in {1, -1}
  OBVIOUS
<1> HIDE DEF right, down
<1>7. \A j \in {i, k, l} : /\ row(j) \in 0 .. w - 1 /\ col(j) \in 0 .. w - 1
                           /\ path[j] \div w = row(j) /\ path[j] % w = col(j)
                           /\ path[j] \in 0 .. w * w - 1
  <2> SUFFICES ASSUME NEW j \in {i, k, l}
               PROVE  /\ row(j) \in 0 .. w - 1 /\ col(j) \in 0 .. w - 1
                      /\ path[j] \div w = row(j) /\ path[j] % w = col(j)
                      /\ path[j] \in 0 .. w * w - 1
    OBVIOUS
  <2>1. /\ row(j) \in 0 .. w - 1 /\ col(j) \in 0 .. w - 1 /\ path[j] = row(j) * w + col(j)
        /\ path[j] \div w = row(j) /\ path[j] % w = col(j)
    BY <1>1, <1>3
  <2>2. row(j) * w + col(j) \in 0 .. w * w - 1
    BY <2>1, CellOnMesh, Zenon
  <2> QED
    BY <2>1, <2>2
<1> DEFINE c == <<path[i], path[k]>>
           d == <<path[k], path[l]>>
<1>8. MeshRank(w, c) = PlaceRank(w, col(i), row(i), col(k), row(k)) /\ MeshRank(w, d) = PlaceRank(w, col(k), row(k), col(l), row(l))
  BY <1>7 DEF MeshRank, PlaceRank
<1>9. /\ PlaceRank(w, col(i), row(i), col(k), row(k)) \in 0 .. 2 * w
      /\ PlaceRank(w, col(k), row(k), col(l), row(l)) \in 0 .. 2 * w
      /\ PlaceRank(w, col(i), row(i), col(k), row(k)) < PlaceRank(w, col(k), row(k), col(l), row(l))
  <2>1. /\ row(i) \in 0 .. w - 1 /\ col(i) \in 0 .. w - 1 /\ row(k) \in 0 .. w - 1 /\ col(k) \in 0 .. w - 1
        /\ row(l) \in 0 .. w - 1 /\ col(l) \in 0 .. w - 1
    BY <1>7
  <2>2. \/ row(k) = row(i) /\ col(k) = col(i) + right /\ row(l) = row(k) /\ col(l) = col(k) + right
        \/ row(k) = row(i) /\ col(k) = col(i) + right /\ col(l) = col(k) /\ row(l) = row(k) + down
        \/ col(k) = col(i) /\ row(k) = row(i) + down /\ col(l) = col(k) /\ row(l) = row(k) + down
    <3>1. (i <= p \/ i > p) /\ (k <= p \/ k > p) /\ (k <= p => i <= p)
      BY <1>1, <1>3
    <3> QED
      BY <1>4, <1>5, <3>1, Zenon
  <2> QED
    BY <1>6, <2>1, <2>2 DEF PlaceRank
<1>10. path[i] \in 0 .. w * w - 1 /\ path[k] \in 0 .. w * w - 1 /\ path[l] \in 0 .. w * w - 1
  BY <1>7
<1>11. /\ c \in (0 .. w * w - 1) \X (0 .. w * w - 1) /\ d \in (0 .. w * w - 1) \X (0 .. w * w - 1)
       /\ MeshRank(w, c) \in 0 .. 2 * w /\ MeshRank(w, d) \in 0 .. 2 * w
       /\ MeshRank(w, c) < MeshRank(w, d)
  BY <1>8, <1>9, <1>10
<1> QED
  BY <1>11 DEF k, l, path

\* A route of the ring goes the shorter way round.
LeastAround(n, a, b) == IF Distance(a, b) <= n - Distance(a, b) THEN Distance(a, b) ELSE n - Distance(a, b)
RingDelivery(n, a, b) ==
  LET r == ring_route(n, a, b)
  IN  /\ r.path[1] = a /\ r.path[Len(r.path)] = b
      /\ r.hops = LeastAround(n, a, b) /\ Len(r.path) - 1 = LeastAround(n, a, b)
      /\ \A i \in 1 .. Len(r.path) - 1 :
            (r.path[i] + 1) % n = r.path[i + 1] \/ (r.path[i + 1] + 1) % n = r.path[i]

LEMMA RingDelivers ==
  ASSUME NEW n \in Nat \ {0}, NEW a \in 0 .. n - 1, NEW b \in 0 .. n - 1
  PROVE  RingDelivery(n, a, b)
<1> DEFINE forward  == IF b >= a THEN b - a ELSE n - a + b
           backward == IF a >= b THEN a - b ELSE a + n - b
           least == LeastAround(n, a, b)
           r == ring_route(n, a, b)
           f == [i \in 1 .. forward |-> (a + i) % n]
           g == [i \in 1 .. backward |-> (a + n - i) % n]
<1>1. forward \in 0 .. n - 1 /\ backward \in 0 .. n
  OBVIOUS
<1>2. r = IF forward <= backward THEN [path |-> <<a>> \o f, hops |-> forward]
          ELSE [path |-> <<a>> \o g, hops |-> backward]
  BY DEF ring_route
<1>3. least = IF forward <= backward THEN forward ELSE backward
  BY DEF Distance, LeastAround
<1>4. /\ IF a + forward < n THEN a + forward = b ELSE a + forward - n = b
      /\ IF a + n - backward < n THEN a + n - backward = b ELSE a + n - backward - n = b
  OBVIOUS
<1> HIDE DEF forward, backward, least, r
<1>5. CASE forward <= backward
  <2>1. \A i \in 0 .. forward : /\ (a + i) % n = (IF a + i < n THEN a + i ELSE a + i - n)
                                /\ (a + i) % n \in 0 .. n - 1
    <3> SUFFICES ASSUME NEW i \in 0 .. forward
                 PROVE  (a + i) % n = IF a + i < n THEN a + i ELSE a + i - n
      BY <1>1
    <3>1. a + i \in Nat /\ a + i < 2 * n
      BY <1>1
    <3> QED
      BY <3>1, Z3
  <2>2. f \in [1 .. forward -> 0 .. n - 1]
    BY <2>1, <1>1
  <2>3. /\ Len(r.path) = forward + 1 /\ r.hops = forward
        /\ \A i \in 1 .. forward + 1 : r.path[i] = IF i = 1 THEN a ELSE f[i - 1]
    <3> HIDE DEF f
    <3>1. forward \in Nat /\ r.path = <<a>> \o f /\ r.hops = forward
      BY <1>1, <1>2, <1>5
    <3> QED
      BY <2>2, <3>1, Prefixed
  <2>4. \A i \in 1 .. forward + 1 : r.path[i] = (IF a + (i - 1) < n THEN a + (i - 1) ELSE a + (i - 1) - n)
    <3> SUFFICES ASSUME NEW i \in 1 .. forward + 1
                 PROVE  r.path[i] = IF a + (i - 1) < n THEN a + (i - 1) ELSE a + (i - 1) - n
      OBVIOUS
    <3>1. CASE i = 1
      <4>1. r.path[i] = a
        BY <2>3, <3>1
      <4> QED
        BY <3>1, <4>1
    <3>2. CASE i # 1
      <4>1. i - 1 \in 1 .. forward /\ i - 1 \in 0 .. forward
        BY <1>1, <3>2
      <4>2. r.path[i] = (a + (i - 1)) % n
        BY <2>3, <3>2, <4>1
      <4>3. a + (i - 1) \in Nat /\ a + (i - 1) < 2 * n
        BY <1>1, <4>1
      <4>4. (a + (i - 1)) % n = IF a + (i - 1) < n THEN a + (i - 1) ELSE a + (i - 1) - n
        BY <4>3, Z3
      <4> QED
        BY <4>2, <4>4
    <3> QED
      BY <3>1, <3>2
  <2>5. r.path[1] = a
    BY <1>1, <2>4
  <2>6. r.path[Len(r.path)] = b
    <3>1. forward + 1 \in 1 .. forward + 1 /\ (forward + 1) - 1 = forward
      BY <1>1
    <3>2. r.path[forward + 1] = (IF a + forward < n THEN a + forward ELSE a + forward - n)
      BY <2>4, <3>1
    <3> QED
      BY <1>4, <2>3, <3>2
  <2>7. ASSUME NEW i \in 1 .. forward
        PROVE  (r.path[i] + 1) % n = r.path[i + 1]
    <3>1. i \in 1 .. forward + 1 /\ i + 1 \in 1 .. forward + 1 /\ (i + 1) - 1 = i
      BY <1>1
    <3>2. /\ r.path[i] = (IF a + (i - 1) < n THEN a + (i - 1) ELSE a + (i - 1) - n)
          /\ r.path[i + 1] = (IF a + i < n THEN a + i ELSE a + i - n)
      BY <2>4, <3>1
    <3>3. r.path[i] \in 0 .. n - 1 /\ r.path[i] + 1 \in Nat /\ r.path[i] + 1 < 2 * n
      BY <1>1, <3>2
    <3>4. (r.path[i] + 1) % n = IF r.path[i] + 1 < n THEN r.path[i] + 1 ELSE r.path[i] + 1 - n
      BY <3>3, Z3
    <3> QED
      BY <1>1, <3>2, <3>3, <3>4
  <2> QED
    BY <1>1, <1>3, <1>5, <2>3, <2>5, <2>6, <2>7 DEF r, least, RingDelivery
<1>6. CASE ~(forward <= backward)
  <2>1. \A i \in 0 .. backward : /\ (a + n - i) % n = (IF a + n - i < n THEN a + n - i ELSE a + n - i - n)
                                 /\ (a + n - i) % n \in 0 .. n - 1
    <3> SUFFICES ASSUME NEW i \in 0 .. backward
                 PROVE  (a + n - i) % n = IF a + n - i < n THEN a + n - i ELSE a + n - i - n
      BY <1>1
    <3>1. a + n - i \in Nat /\ a + n - i < 2 * n
      BY <1>1
    <3> QED
      BY <3>1, Z3
  <2>2. g \in [1 .. backward -> 0 .. n - 1]
    BY <2>1, <1>1
  <2>3. /\ Len(r.path) = backward + 1 /\ r.hops = backward
        /\ \A i \in 1 .. backward + 1 : r.path[i] = IF i = 1 THEN a ELSE g[i - 1]
    <3> HIDE DEF g
    <3>1. backward \in Nat /\ r.path = <<a>> \o g /\ r.hops = backward
      BY <1>1, <1>2, <1>6
    <3> QED
      BY <2>2, <3>1, Prefixed
  <2>4. \A i \in 1 .. backward + 1 :
           r.path[i] = (IF a + n - (i - 1) < n THEN a + n - (i - 1) ELSE a + n - (i - 1) - n)
    <3> SUFFICES ASSUME NEW i \in 1 .. backward + 1
                 PROVE  r.path[i] = IF a + n - (i - 1) < n THEN a + n - (i - 1) ELSE a + n - (i - 1) - n
      OBVIOUS
    <3>1. CASE i = 1
      <4>1. r.path[i] = a
        BY <2>3, <3>1
      <4> QED
        BY <3>1, <4>1
    <3>2. CASE i # 1
      <4>1. i - 1 \in 1 .. backward /\ i - 1 \in 0 .. backward
        BY <1>1, <3>2
      <4>2. r.path[i] = (a + n - (i - 1)) % n
        BY <2>3, <3>2, <4>1
      <4>3. a + n - (i - 1) \in Nat /\ a + n - (i - 1) < 2 * n
        BY <1>1, <4>1
      <4>4. (a + n - (i - 1)) % n = IF a + n - (i - 1) < n THEN a + n - (i - 1) ELSE a + n - (i - 1) - n
        BY <4>3, Z3
      <4> QED
        BY <4>2, <4>4
    <3> QED
      BY <3>1, <3>2
  <2>5. r.path[1] = a
    BY <1>1, <2>4
  <2>6. r.path[Len(r.path)] = b
    <3>1. backward + 1 \in 1 .. backward + 1 /\ (backward + 1) - 1 = backward
      BY <1>1
    <3>2. r.path[backward + 1] = (IF a + n - backward < n THEN a + n - backward ELSE a + n - backward - n)
      BY <2>4, <3>1
    <3> QED
      BY <1>4, <2>3, <3>2
  <2>7. ASSUME NEW i \in 1 .. backward
        PROVE  (r.path[i + 1] + 1) % n = r.path[i]
    <3>1. i \in 1 .. backward + 1 /\ i + 1 \in 1 .. backward + 1 /\ (i + 1) - 1 = i
      BY <1>1
    <3>2. /\ r.path[i] = (IF a + n - (i - 1) < n THEN a + n - (i - 1) ELSE a + n - (i - 1) - n)
          /\ r.path[i + 1] = (IF a + n - i < n THEN a + n - i ELSE a + n - i - n)
      BY <2>4, <3>1
    <3>3. r.path[i + 1] \in 0 .. n - 1 /\ r.path[i + 1] + 1 \in Nat /\ r.path[i + 1] + 1 < 2 * n
      BY <1>1, <3>2
    <3>4. (r.path[i + 1] + 1) % n = IF r.path[i + 1] + 1 < n THEN r.path[i + 1] + 1 ELSE r.path[i + 1] + 1 - n
      BY <3>3, Z3
    <3> QED
      BY <1>1, <3>2, <3>3, <3>4
  <2> QED
    BY <1>1, <1>3, <1>6, <2>3, <2>5, <2>6, <2>7 DEF r, least, RingDelivery
<1> QED
  BY <1>5, <1>6

\* The network never holds more nodes than it has places for, and a mesh is never
\* without a width: the default takes the place of zero.
IntcnInv ==
  icn \in [topology : Topology, node_count : 0 .. INTERCONNECT_MAX_NODES, mesh_width : Nat \ {0}]

LEMMA IntcnInvHolds == IntcnSpec => []IntcnInv
<1>1. IntcnInit => IntcnInv
  BY IntcnAssumption DEF IntcnInit, IntcnInv
<1>2. IntcnInv /\ [intcn_add_node]_icn => IntcnInv'
  BY IntcnAssumption DEF IntcnInv, intcn_add_node
<1> QED
  BY <1>1, <1>2, PTL DEF IntcnSpec

\* What a packet may wait for on the mesh makes no cycle.
LEMMA MeshAcyclic ==
  ASSUME IntcnInv, icn.topology = "MESH"
  PROVE  Acyclic(Waits)
<1> DEFINE w == icn.mesh_width
           places == 0 .. w * w - 1
           channels == places \X places
           grade == [c \in channels |-> MeshRank(w, c)]
<1>1. w \in Nat \ {0} /\ w * w \in Nat
  BY DEF IntcnInv
<1>2. ASSUME NEW e \in Waits
      PROVE  /\ e[1] \in channels /\ e[2] \in channels /\ e \in channels \X channels
             /\ MeshRank(w, e[1]) \in 0 .. 2 * w /\ MeshRank(w, e[2]) \in 0 .. 2 * w
             /\ MeshRank(w, e[1]) < MeshRank(w, e[2])
  <2> DEFINE Held(x, y) == LET c == Channels(intcn_route(x, y).path)
                           IN  {<<c[i], c[i + 1]>> : i \in 1 .. Len(c) - 1}
  <2>0. e \in UNION {Held(x, y) : x \in Nodes, y \in Nodes}
    BY <1>2 DEF Waits
  <2> HIDE DEF Held
  <2>1. PICK a \in Nodes, b \in Nodes : e \in Held(a, b)
    BY <2>0
  <2> DEFINE path == intcn_route(a, b).path
             c == Channels(path)
  <2>2. PICK i \in 1 .. Len(c) - 1 : e = <<c[i], c[i + 1]>>
    BY <2>1 DEF Held
  <2>3. a \in Nat /\ b \in Nat /\ a < INTERCONNECT_MAX_NODES /\ b < INTERCONNECT_MAX_NODES
    BY IntcnAssumption DEF Nodes, IntcnInv
  <2>4. intcn_route(a, b) = mesh_route(w, a, b)
    BY <2>3, IntcnAssumption DEF intcn_route
  <2>5. a < w * w /\ b < w * w
    <3>1. SUFFICES ASSUME a >= w * w \/ b >= w * w PROVE FALSE
      BY <1>1, <2>3
    <3>2. path = <<a>>
      <4> HIDE DEF w
      <4>1. mesh_route(w, a, b) = [path |-> <<a>>, hops |-> 1]
        BY <3>1, Zenon DEF mesh_route
      <4> QED
        BY <2>4, <4>1
    <3>3. Len(path) = 1
      BY <3>2
    <3> HIDE DEF path
    <3>4. c = [k \in 1 .. 0 |-> <<path[k], path[k + 1]>>]
      BY <3>3 DEF Channels
    <3>5. Len(c) = 0
      BY <3>4
    <3> QED
      BY <3>5
  <2>6. Across(w, a, b) \in Nat /\ Down(w, a, b) \in Nat /\ Len(path) = Across(w, a, b) + Down(w, a, b) + 1
    <3>1. path = mesh_route(w, a, b).path
      BY <2>4
    <3> HIDE DEF path, w
    <3>2. MeshPlaces(w, a, b, mesh_route(w, a, b))
      BY <1>1, <2>3, <2>5, MeshRouteIs
    <3> QED
      BY <3>1, <3>2, Zenon DEF MeshPlaces
  <2> DEFINE m == Across(w, a, b) + Down(w, a, b)
  <2>7. c = [k \in 1 .. m |-> <<path[k], path[k + 1]>>] /\ m \in Nat
    <3>1. Len(path) - 1 = m /\ m \in Nat
      BY <2>6
    <3> HIDE DEF path, m
    <3> QED
      BY <3>1 DEF Channels
  <2>8. Len(c) = m
    <3> HIDE DEF path, m, c
    <3> QED
      BY <2>7
  <2>9. i \in 1 .. m - 1 /\ i \in 1 .. m /\ i + 1 \in 1 .. m
    <3> HIDE DEF c, m
    <3> QED
      BY <2>2, <2>7, <2>8
  <2>10. e = <<<<path[i], path[i + 1]>>, <<path[i + 1], path[i + 2]>>>>
    <3>1. i + 1 + 1 = i + 2
      BY <2>6, <2>9
    <3>2. c[i] = <<path[i], path[i + 1]>> /\ c[i + 1] = <<path[i + 1], path[i + 1 + 1]>>
      <4> HIDE DEF path, m, c
      <4> QED
        BY <2>7, <2>9
    <3> QED
      BY <2>2, <3>1, <3>2, Zenon
  <2> DEFINE d1 == <<path[i], path[i + 1]>>
             d2 == <<path[i + 1], path[i + 2]>>
  <2>11. /\ d1 \in channels /\ d2 \in channels
         /\ MeshRank(w, d1) \in 0 .. 2 * w /\ MeshRank(w, d2) \in 0 .. 2 * w
         /\ MeshRank(w, d1) < MeshRank(w, d2)
    <3>1. path = mesh_route(w, a, b).path
      BY <2>4
    <3>2. i \in 1 .. Across(w, a, b) + Down(w, a, b) - 1
      BY <2>6, <2>9
    <3>w. w \in Nat \ {0}
      BY <1>1
    <3> HIDE DEF path, w
    <3>3. LET p == mesh_route(w, a, b).path
              c1 == <<p[i], p[i + 1]>>
              c2 == <<p[i + 1], p[i + 2]>>
          IN  /\ c1 \in channels /\ c2 \in channels
              /\ MeshRank(w, c1) \in 0 .. 2 * w /\ MeshRank(w, c2) \in 0 .. 2 * w
              /\ MeshRank(w, c1) < MeshRank(w, c2)
      BY <2>3, <2>5, <3>2, <3>w, MeshRankGrows, Zenon
    <3> QED
      BY <3>1, <3>3, Zenon
  <2> HIDE DEF d1, d2, channels, w
  <2>12. e = <<d1, d2>>
    BY <2>10 DEF d1, d2
  <2> QED
    BY <2>11, <2>12
<1>3. IsFiniteSet(Waits)
  <2>1. IsFiniteSet(places)
    BY <1>1, FS_Interval
  <2>2. IsFiniteSet(channels)
    <3> HIDE DEF places
    <3> QED
      BY <2>1, FS_Product
  <2> HIDE DEF channels
  <2>3. IsFiniteSet(channels \X channels)
    BY <2>2, FS_Product
  <2>4. Waits \subseteq channels \X channels
    BY <1>2
  <2> QED
    BY <2>3, <2>4, FS_Subset
<1>4. 2 * w \in Nat
  BY <1>1
<1>5. \A e \in Waits : grade[e[1]] \in 0 .. 2 * w /\ grade[e[2]] \in 0 .. 2 * w /\ grade[e[1]] < grade[e[2]]
  <2> HIDE DEF channels, w
  <2> QED
    BY <1>2
<1> HIDE DEF grade
<1> QED
  BY <1>3, <1>4, <1>5, RankedIsAcyclic

\* The routes deliver whatever the topology, the width and the number of nodes.
LEMMA RoutesSound == IntcnInv => RoutesDeliver
<1> SUFFICES ASSUME IntcnInv
             PROVE  RoutesDeliver
  OBVIOUS
<1> DEFINE w == icn.mesh_width
           n == icn.node_count
           Good(a, b) ==
             LET r == intcn_route(a, b)
             IN  /\ r.path[1] = a /\ r.path[Len(r.path)] = b
                 /\ \A i \in 1 .. Len(r.path) - 1 : Wired(r.path[i], r.path[i + 1])
                 /\ Len(r.path) - 1 = Fewest(a, b)
                 /\ icn.topology \in {"MESH", "RING"} => r.hops = Fewest(a, b)
<1>1. /\ w \in Nat \ {0} /\ n \in 0 .. INTERCONNECT_MAX_NODES /\ INTERCONNECT_MAX_NODES \in Nat
      /\ icn.topology \in Topology
  BY IntcnAssumption DEF IntcnInv
<1>2. ASSUME NEW a \in Nodes, NEW b \in Nodes
      PROVE  /\ a \in 0 .. n - 1 /\ b \in 0 .. n - 1 /\ a \in Nat /\ b \in Nat /\ n \in Nat \ {0}
             /\ ~(a >= INTERCONNECT_MAX_NODES \/ b >= INTERCONNECT_MAX_NODES)
  BY <1>1 DEF Nodes
<1>3. ASSUME NEW a \in {k \in Nodes : OnMesh(k)}, NEW b \in {k \in Nodes : OnMesh(k)}
      PROVE  Good(a, b)
  <2>1. CASE icn.topology = "MESH"
    <3>1. a < w * w /\ b < w * w
      BY <2>1 DEF OnMesh
    <3>2. intcn_route(a, b) = mesh_route(w, a, b)
      BY <1>2, <2>1 DEF intcn_route
    <3>3. Fewest(a, b) = Across(w, a, b) + Down(w, a, b)
      BY <2>1 DEF Fewest, Across, Down
    <3> DEFINE r == mesh_route(w, a, b)
    <3>4. /\ r.path[1] = a /\ r.path[Len(r.path)] = b
          /\ r.hops = Across(w, a, b) + Down(w, a, b) /\ Len(r.path) - 1 = r.hops
          /\ \A i \in 1 .. Len(r.path) - 1 :
                \/ /\ r.path[i] \div w = r.path[i + 1] \div w
                   /\ Distance(r.path[i] % w, r.path[i + 1] % w) = 1
                \/ /\ r.path[i] % w = r.path[i + 1] % w
                   /\ Distance(r.path[i] \div w, r.path[i + 1] \div w) = 1
      <4>1. w \in Nat \ {0} /\ a \in Nat /\ b \in Nat
        BY <1>1, <1>2
      <4> HIDE DEF w
      <4>2. MeshDelivery(w, a, b)
        BY <3>1, <4>1, MeshDelivers, Zenon
      <4> QED
        BY <4>2 DEF MeshDelivery
    <3> HIDE DEF r
    <3>5. \A u, v : Wired(u, v) = (\/ u \div w = v \div w /\ Distance(u % w, v % w) = 1
                                   \/ u % w = v % w /\ Distance(u \div w, v \div w) = 1)
      BY <2>1 DEF Wired
    <3> QED
      BY <3>2, <3>3, <3>4, <3>5 DEF r
  <2>2. CASE icn.topology = "RING"
    <3>1. intcn_route(a, b) = ring_route(n, a, b)
      BY <1>2, <2>2 DEF intcn_route
    <3> DEFINE r == ring_route(n, a, b)
               least == LeastAround(n, a, b)
    <3>2. Fewest(a, b) = least
      BY <2>2 DEF Fewest, LeastAround
    <3>3. /\ r.path[1] = a /\ r.path[Len(r.path)] = b
          /\ r.hops = least /\ Len(r.path) - 1 = least
          /\ \A i \in 1 .. Len(r.path) - 1 :
                (r.path[i] + 1) % n = r.path[i + 1] \/ (r.path[i + 1] + 1) % n = r.path[i]
      <4>1. n \in Nat \ {0} /\ a \in 0 .. n - 1 /\ b \in 0 .. n - 1
        BY <1>2
      <4> HIDE DEF n
      <4> QED
        <5>1. RingDelivery(n, a, b)
          BY <4>1, RingDelivers, Zenon
        <5> QED
          BY <5>1, Zenon DEF RingDelivery
    <3> HIDE DEF r, least
    <3>4. \A u, v : Wired(u, v) = ((u + 1) % n = v \/ (v + 1) % n = u)
      BY <2>2 DEF Wired
    <3> QED
      BY <3>1, <3>2, <3>3, <3>4 DEF r
  <2>3. CASE icn.topology \notin {"MESH", "RING"}
    <3>1. intcn_route(a, b) = bus_route(a, b)
      BY <1>2, <2>3 DEF intcn_route
    <3>2. Fewest(a, b) = IF a = b THEN 0 ELSE 1
      BY <2>3 DEF Fewest
    <3>3. \A u, v : Wired(u, v) = (u # v)
      BY <2>3 DEF Wired
    <3>4. CASE a = b
      <4>1. intcn_route(a, b).path = <<a>>
        BY <3>1, <3>4 DEF bus_route
      <4> QED
        BY <2>3, <3>2, <3>4, <4>1
    <3>5. CASE a # b
      <4>1. intcn_route(a, b).path = <<a, b>>
        BY <3>1, <3>5 DEF bus_route
      <4> DEFINE path == intcn_route(a, b).path
      <4>2. Len(path) = 2 /\ Len(path) - 1 = 1 /\ path[1] = a /\ path[Len(path)] = b /\ path[1 + 1] = b
        BY <4>1
      <4> HIDE DEF path
      <4>3. \A i \in 1 .. Len(path) - 1 : Wired(path[i], path[i + 1])
        <5>1. \A i \in 1 .. Len(path) - 1 : i = 1
          BY <4>2
        <5>2. Wired(path[1], path[1 + 1])
          BY <3>3, <3>5, <4>2, Zenon
        <5> QED
          BY <5>1, <5>2, Zenon
      <4> QED
        BY <2>3, <3>2, <3>5, <4>2, <4>3 DEF path
    <3> QED
      BY <3>4, <3>5
  <2> QED
    BY <2>1, <2>2, <2>3
<1>4. ASSUME NEW a \in {k \in Nodes : OnMesh(k)}, NEW b \in {k \in Nodes : OnMesh(k)}, icn.topology # "TREE"
      PROVE  intcn_latency(a, b) = intcn_latency(b, a)
  <2>1. CASE icn.topology \in {"BUS", "CROSSBAR"}
    BY <2>1 DEF intcn_latency
  <2>2. CASE icn.topology \in {"MESH", "RING"}
    <3>1. intcn_route(a, b).hops = Fewest(a, b) /\ intcn_route(b, a).hops = Fewest(b, a)
      BY <1>3, <2>2
    <3>2. Fewest(a, b) = Fewest(b, a)
      <4>1. \A x, y \in Nat : Distance(x, y) = Distance(y, x) /\ Distance(x, y) \in Nat
        BY DEF Distance
      <4>2. CASE icn.topology = "MESH"
        <5>1. a % w \in Nat /\ b % w \in Nat /\ a \div w \in Nat /\ b \div w \in Nat
          <6>1. w \in Nat \ {0} /\ a \in Nat /\ b \in Nat /\ a < w * w /\ b < w * w
            BY <1>1, <1>2, <4>2 DEF OnMesh
          <6> HIDE DEF w
          <6> QED
            <7>1. a % w \in 0 .. w - 1 /\ a \div w \in 0 .. w - 1
              BY <6>1, OnMeshIs, Zenon
            <7>2. b % w \in 0 .. w - 1 /\ b \div w \in 0 .. w - 1
              BY <6>1, OnMeshIs, Zenon
            <7> QED
              BY <6>1, <7>1, <7>2
        <5>2. /\ Fewest(a, b) = Distance(a % w, b % w) + Distance(a \div w, b \div w)
              /\ Fewest(b, a) = Distance(b % w, a % w) + Distance(b \div w, a \div w)
          BY <4>2 DEF Fewest
        <5> QED
          BY <4>1, <5>1, <5>2
      <4>3. CASE icn.topology = "RING"
        BY <1>2, <4>1, <4>3 DEF Fewest
      <4> QED
        BY <2>2, <4>2, <4>3
    <3> QED
      BY <2>2, <3>1, <3>2 DEF intcn_latency
  <2> QED
    BY <1>1, <1>4, <2>1, <2>2 DEF Topology
<1>5. icn.topology = "MESH" => Acyclic(Waits)
  BY MeshAcyclic
<1> HIDE DEF Good
<1>6. \A a, b \in {k \in Nodes : OnMesh(k)} :
         Good(a, b) /\ (icn.topology # "TREE" => intcn_latency(a, b) = intcn_latency(b, a))
  BY <1>3, <1>4
<1> QED
  BY <1>5, <1>6, Zenon DEF RoutesDeliver, Good

\* Over every topology, whatever the number of nodes and the width of the mesh, a route
\* leads from its source to its destination over existing wires, by the fewest hops and
\* as fast there as back; and the routes of a mesh together make no cycle of channels
\* that wait for each other (intcn_route, intcn_latency).  The buffer a path is written to
\* is not modelled: it bounds the widths and rings the code can serve.
THEOREM RoutesCorrect == IntcnSpec => []RoutesDeliver
BY IntcnInvHolds, RoutesSound, PTL
================================================================================
