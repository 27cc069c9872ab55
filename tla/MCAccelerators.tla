----------------------------- MODULE MCAccelerators -----------------------------
(* Instances of the network links, the graphics core, the root of trust and the    *)
(* accelerators for TLC.  They share no state, so a behaviour exercises one of      *)
(* them; the others stay at one of their starts.                                    *)
EXTENDS NetworkLinks, GpuCore, TrustHardware, MatrixEngines, TpuCore

VARIABLE part

accel_vars == <<links_vars, gpucore_vars, trust_vars, matrix_vars, tpu_vars>>

\* Two classes of which the second is served first, and a packet of either size.
MCQosClasses ==
    <<[priority |-> 1, weight |-> 2, quantum |-> 3, dscp |-> {1}],
      [priority |-> 5, weight |-> 1, quantum |-> 3, dscp |-> {1, 2}]>>

\* Warps, registers and shared memory of a block, in multiples that do and do not fit.
MCBlockShapes == {<<2, 1, 1>>, <<3, 0, 1>>, <<1, 2, 3>>}

\* Regions that follow each other, and one whose size is not a number of lines.
MCRegionShapes == {<<0, 2>>, <<4, 2>>, <<0, 3>>}

\* Rows of three with none, one, two and three entries, one more than the formats hold.
MCSparseMatrices ==
    [0 .. 2 -> {[j \in 0 .. 2 |-> IF j \in S THEN j + 1 ELSE 0] : S \in {{}, {0}, {1, 2}, {0, 1, 2}}}]
MCVectors == {[j \in 0 .. 2 |-> 10 ^ j]}
MCWeights == [0 .. 3 -> {-2, 0, 1, 2}]
MCFills ==
    {[p \in (0 .. 7) \X (0 .. 7) |-> 1 + ((3 * p[1] + 5 * p[2]) % 7)],
     [p \in (0 .. 7) \X (0 .. 7) |-> ((p[1] * p[1] + 2 * p[2] + 1) % 5) - 2],
     [p \in (0 .. 7) \X (0 .. 7) |-> IF p[1] = p[2] THEN 1 ELSE 0]}
MCShapes == {<<1, 1, 1>>, <<2, 3, 4>>, <<3, 2, 4>>, <<5, 4, 3>>, <<4, 4, 8>>, <<3, 5, 5>>, <<2, 2, 2>>}

MCWeightSets  == {[p \in Cells |-> 1 + 2 * p[1] + 3 * p[2]], [p \in Cells |-> 2 - p[1] * p[2]]}
MCActivations == {[i \in Edge |-> i + 1], [i \in Edge |-> 10 - i]}
Instruction(op, src, dst) == [opcode |-> op, src |-> src, dst |-> dst]
MCInstructions ==
    {Instruction("MATMUL", "a", "b"), Instruction("VECTOR_ADD", "a", "c"), Instruction("ACTIVATION", "a", "a"),
     Instruction("LOAD_WEIGHT", "a", "b"), Instruction("LOAD_ACT", "a", "a"), Instruction("STORE", "a", "a")}

LinkParts   == {"switch", "classes", "line", "scrambler", "clock", "frame", "config"}
GpuParts    == {"lanes", "shader", "stages", "vector", "caches", "tlb", "fence", "shared", "plan"}
TrustParts  == {"puf", "root", "engine", "replay"}
MatrixParts == {"csr", "ell", "job"}
TpuParts    == {"array", "banks", "buffer", "pipeline", "tokens"}

AccelInit ==
    /\ part \in LinkParts \cup GpuParts \cup TrustParts \cup MatrixParts \cup TpuParts
    /\ LinksInit /\ (part # "scrambler" => scr.seed = 1) /\ (part # "clock" => ptp.offset = 0)
    /\ GpuCoreInit /\ TrustInit /\ MatrixInit /\ TpuInit
    /\ (part # "array" => sa.array.input_fifo = [i \in Fifo |-> 0])

AccelNext ==
    /\ UNCHANGED part
    /\ \/ part = "switch"    /\ SwitchNext
       \/ part = "classes"   /\ QosNext
       \/ part = "line"      /\ LineNext
       \/ part = "scrambler" /\ ScrambleNext
       \/ part = "clock"     /\ PtpNext
       \/ part = "frame"     /\ FrameNext
       \/ part = "config"    /\ PciNext
       \/ part = "lanes"     /\ LaneNext
       \/ part = "shader"    /\ ShaderNext
       \/ part = "stages"    /\ StageNext
       \/ part = "vector"    /\ VecNext
       \/ part = "caches"    /\ MemoryNext
       \/ part = "tlb"       /\ GpuTlbNext
       \/ part = "fence"     /\ FenceNext
       \/ part = "shared"    /\ SharedNext
       \/ part = "plan"      /\ PlanNext
       \/ part = "puf"       /\ PufNext
       \/ part = "root"      /\ HrotNext
       \/ part = "engine"    /\ MeeNext
       \/ part = "replay"    /\ ReplayNext
       \/ part = "csr"       /\ CsrNext
       \/ part = "ell"       /\ EllNext
       \/ part = "job"       /\ JobNext
       \/ part = "array"     /\ ArrayNext
       \/ part = "banks"     /\ BufferNext
       \/ part = "buffer"    /\ AllocNext
       \/ part = "pipeline"  /\ PipelineNext
       \/ part = "tokens"    /\ CacheNext
    /\ part \notin LinkParts => UNCHANGED links_vars
    /\ part \notin GpuParts => UNCHANGED gpucore_vars
    /\ part \notin TrustParts => UNCHANGED trust_vars
    /\ part \notin MatrixParts => UNCHANGED matrix_vars
    /\ part \notin TpuParts => UNCHANGED tpu_vars

AccelSpec == AccelInit /\ [][AccelNext]_<<part, accel_vars>>
--------------------------------------------------------------------------------
(* Each component is looked at while it moves; idle it is at one of its starts,     *)
(* which its own parts include.                                                     *)

\* Switch, queues, line code, clocks, frames and configuration space keep their promises.
LinksHold == part \in LinkParts => LinksSound

\* Warps, blocks, vector unit, caches, fences and plans of the graphics core keep theirs.
GpuHolds == part \in GpuParts => GpuCoreSound

\* Sparse formats, pruning, products and convolutions are exact; array, weight banks,
\* buffer, pipeline and token cache do what a cycle-free account says.
TensorsHold ==
    /\ part \in MatrixParts => MatrixSound
    /\ part \in TpuParts    => TpuSound
================================================================================
