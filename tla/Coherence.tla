-------------------------------- MODULE Coherence --------------------------------
(***************************************************************************)
(* The cache coherence controller of mini-computer-arch (src/coherence.c): *)
(* direct-mapped private caches that snoop each other on a miss, and a     *)
(* directory that is written along the way.                                *)
(*                                                                         *)
(* An address is its line number t = address / 64, which is also the tag.  *)
(* There is no memory behind the caches: a miss no owner answers is filled *)
(* with zeros, and an evicted line is dropped.  Left out: the statistics,  *)
(* and the directory's sharer bits, which nothing reads.                   *)
(***************************************************************************)
EXTENDS Integers, FiniteSets

CONSTANTS
    NUM_CACHES,              \* num_caches, at most 16
    NUM_TAGS,                \* memory lines in use
    COHERENCE_CACHE_LINES,   \* 256
    COHERENCE_DIR_ENTRIES,   \* 4096
    Line,                    \* contents of a line
    ZeroLine,                \* 64 zero bytes
    NoData                   \* data_in == NULL

ASSUME CoherenceAssumption ==
    /\ NUM_CACHES \in Nat \ {0}
    /\ NUM_TAGS \in Nat \ {0}
    /\ COHERENCE_CACHE_LINES \in Nat \ {0}
    /\ COHERENCE_DIR_ENTRIES \in Nat \ {0}
    /\ ZeroLine \in Line /\ NoData \notin Line

Caches   == 0 .. NUM_CACHES - 1
Tags     == 0 .. NUM_TAGS - 1
Indices  == 0 .. COHERENCE_CACHE_LINES - 1
DirSlots == 0 .. COHERENCE_DIR_ENTRIES - 1

Protocol       == {"MSI", "MESI", "MOESI"}
CoherenceState == {"M", "E", "S", "I"}

VARIABLES
    protocol,
    lines,       \* caches[c].lines[i]
    directory,   \* directory[d]
    latest,      \* history: what the last write to each line left there
    refilled     \* history: lines a miss has filled with zeros since they were written

coh_vars == <<protocol, lines, directory, latest, refilled>>
--------------------------------------------------------------------------------
Index(t)   == t % COHERENCE_CACHE_LINES
DirSlot(t) == t % COHERENCE_DIR_ENTRIES

At(c, t)    == lines[c][Index(t)]
Holds(c, t) == At(c, t).valid /\ At(c, t).tag = t

\* Caches other than c with a copy of t in one of the states in ss.
Others(c, t, ss) == {o \in Caches \ {c} : Holds(o, t) /\ At(o, t).state \in ss}

has_exclusive_mode == protocol \in {"MESI", "MOESI"}

\* Mutant of dir_update: readers do not become owner of the entry.
dir_update_writers_only(t, s, c) ==
    [directory EXCEPT ![DirSlot(t)] =
        [tag |-> t, state |-> s, owner |-> IF s = "M" THEN c ELSE @.owner]]

dir_update(t, s, c) == [directory EXCEPT ![DirSlot(t)] = [tag |-> t, state |-> s, owner |-> c]]
--------------------------------------------------------------------------------
CohInit ==
    /\ protocol \in Protocol
    /\ lines = [c \in Caches |-> [i \in Indices |->
                  [tag |-> 0, state |-> "M", valid |-> FALSE, data |-> ZeroLine]]]
    /\ directory = [d \in DirSlots |-> [tag |-> 0, state |-> "M", owner |-> 0]]
    /\ latest = [t \in Tags |-> ZeroLine]
    /\ refilled = {}

ReadHit(c, t) == Holds(c, t) /\ UNCHANGED coh_vars

\* The loop over the other caches stops at the first owner: those before it have
\* given up exclusivity, those after it are not looked at.  The directory learns
\* the new state but neither sharer.
ReadFromOwner(c, t) ==
    /\ ~Holds(c, t)
    /\ \E o \in Others(c, t, {"M"}) :
        /\ \A p \in Others(c, t, {"M"}) : o <= p
        /\ lines' = [i \in Caches |-> [lines[i] EXCEPT ![Index(t)] =
               IF i = c THEN [tag |-> t, state |-> "S", valid |-> TRUE, data |-> At(o, t).data]
               ELSE IF i = o \/ (i < o /\ i \in Others(c, t, {"E"}))
                    THEN [@ EXCEPT !.state = "S"]
                    ELSE @]]
    /\ directory' = IF directory[DirSlot(t)].tag = t
                    THEN [directory EXCEPT ![DirSlot(t)].state = "S"]
                    ELSE directory
    /\ UNCHANGED <<protocol, latest, refilled>>

\* Mutant of FillState: holders of the line are not asked.
FillStateExclusive(c, t) == IF has_exclusive_mode THEN "E" ELSE "S"

FillState(c, t) ==
    IF has_exclusive_mode /\ Others(c, t, {"E", "S"}) = {} THEN "E" ELSE "S"

\* Nobody owns the line: the data is zeros, even if another cache has a copy.
ReadFill(c, t) ==
    /\ ~Holds(c, t)
    /\ Others(c, t, {"M"}) = {}
    /\ lines' = [i \in Caches |-> [lines[i] EXCEPT ![Index(t)] =
           IF i = c THEN [tag |-> t, state |-> FillState(c, t), valid |-> TRUE, data |-> ZeroLine]
           ELSE IF i \in Others(c, t, {"E"}) THEN [@ EXCEPT !.state = "S"]
           ELSE @]]
    /\ directory' = dir_update(t, FillState(c, t), c)
    /\ refilled' = refilled \cup {t}
    /\ UNCHANGED <<protocol, latest>>

coherence_read(c, t) == ReadHit(c, t) \/ ReadFromOwner(c, t) \/ ReadFill(c, t)

\* Mutant of Written: the test for a null pointer is missing.
WrittenUnchecked(old, d) == d

\* A write without data keeps what the line holds after the snoop.
Written(old, d) == IF d = NoData THEN old ELSE d

\* The directory is not told that an exclusive line is now modified.
WriteHit(c, t, d) ==
    /\ Holds(c, t) /\ At(c, t).state \in {"M", "E"}
    /\ lines' = [lines EXCEPT ![c][Index(t)].state = "M",
                              ![c][Index(t)].data = Written(@, d)]
    /\ latest' = [latest EXCEPT ![t] = Written(At(c, t).data, d)]
    /\ refilled' = refilled \ {t}
    /\ UNCHANGED <<protocol, directory>>

\* Mutant of Invalidated: only an owner gives up its copy.
InvalidatedOwners(c, t) == Others(c, t, {"M"})

Invalidated(c, t) == Others(c, t, CoherenceState)

\* The data the line holds before the writer's: that of an owner (the last one
\* found), or else whatever was in the entry.
Kept(c, t) ==
    LET owners == Others(c, t, {"M"})
    IN  IF owners = {} THEN At(c, t).data
        ELSE At(CHOOSE o \in owners : \A p \in owners : p <= o, t).data

WriteMiss(c, t, d) ==
    /\ ~(Holds(c, t) /\ At(c, t).state \in {"M", "E"})
    /\ lines' = [i \in Caches |-> [lines[i] EXCEPT ![Index(t)] =
           IF i = c THEN [tag |-> t, state |-> "M", valid |-> TRUE, data |-> Written(Kept(c, t), d)]
           ELSE IF i \in Invalidated(c, t) THEN [@ EXCEPT !.state = "I", !.valid = FALSE]
           ELSE @]]
    /\ latest' = [latest EXCEPT ![t] = Written(Kept(c, t), d)]
    /\ directory' = dir_update(t, "M", c)
    /\ refilled' = refilled \ {t}
    /\ UNCHANGED protocol

coherence_write(c, t, d) == WriteHit(c, t, d) \/ WriteMiss(c, t, d)

\* A cache told of another's write drops its copy, a modified one included; told
\* of a read it does nothing.
coherence_snoop(c, t, is_write) ==
    /\ lines' = IF Holds(c, t) /\ is_write
                THEN [lines EXCEPT ![c][Index(t)].state = "I", ![c][Index(t)].valid = FALSE]
                ELSE lines
    /\ UNCHANGED <<protocol, directory, latest, refilled>>

CohNext ==
    \E c \in Caches, t \in Tags :
        \/ coherence_read(c, t)
        \/ \E d \in Line \cup {NoData} : coherence_write(c, t, d)
        \/ \E is_write \in BOOLEAN : coherence_snoop(c, t, is_write)

CohSpec == CohInit /\ [][CohNext]_coh_vars
--------------------------------------------------------------------------------
(* Properties. *)

CohTypeOK ==
    /\ protocol \in Protocol
    /\ lines \in [Caches -> [Indices -> [tag : Tags, state : CoherenceState,
                                         valid : BOOLEAN, data : Line]]]
    /\ directory \in [DirSlots -> [tag : Tags, state : CoherenceState, owner : Caches]]
    /\ latest \in [Tags -> Line]
    /\ refilled \in SUBSET Tags

\* Single writer or many readers, under all three protocols and across evictions
\* and snoops: beside a modified or exclusive copy of a line there is no other.
SingleWriter ==
    \A c, o \in Caches, t \in Tags :
        c # o /\ Holds(c, t) /\ Holds(o, t) => At(c, t).state = "S" /\ At(o, t).state = "S"

\* The owner has the last value written, and so has every cache that got its copy
\* from an owner: all copies agree until a miss is filled with zeros.
CopiesAreLatest ==
    \A c \in Caches, t \in Tags :
        Holds(c, t) /\ (At(c, t).state = "M" \/ t \notin refilled) => At(c, t).data = latest[t]

\* As long as the directory has an entry for a line that some cache may write, the
\* entry names that cache, and does not call the line shared.  Silent upgrades,
\* evictions and transfers between owners must all keep it so.
DirectoryNamesOwner ==
    \A c \in Caches, t \in Tags :
        /\ Holds(c, t) /\ At(c, t).state \in {"M", "E"}
        /\ directory[DirSlot(t)].tag = t
        => directory[DirSlot(t)].owner = c /\ directory[DirSlot(t)].state \in {"M", "E"}

--------------------------------------------------------------------------------
(* What the documentation promises and the code does not keep. *)

\* A line held shared is what memory holds, and memory is up to date: two caches
\* with a copy of the same line have the same data.
CopiesAgree ==
    \A c, o \in Caches, t \in Tags :
        Holds(c, t) /\ Holds(o, t) => At(c, t).data = At(o, t).data
================================================================================
