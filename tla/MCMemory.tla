-------------------------------- MODULE MCMemory --------------------------------
(* Instances of the components of mini-computer-arch for TLC.  They share no state, *)
(* so a behaviour exercises one of them; the others stay at one of their starts.    *)
EXTENDS Coherence, VirtualMemory, DramController, Interconnect, ArchCache, ArchPipeline, Predictors

VARIABLE part

arch_vars == <<coh_vars, vm_vars, dram_vars, icn, archcache_vars, pl, predictor_vars>>

MCConfigs == {[total_size |-> 12, line_size |-> 2, associativity |-> 2]}

\* Three words, chained, with a load, stores, branches and jumps among them.
MCWords ==
    {pipeline_encode("ADDI", 1, 0, 0, 3), pipeline_encode("ADDI", 1, 1, 0, -1),
     pipeline_encode("ADD", 3, 1, 3, 0), pipeline_encode("SUB", 1, 3, 1, 0),
     pipeline_encode("LW", 3, 0, 0, 4), pipeline_encode("LW", 1, 3, 0, 0),
     pipeline_encode("SW", 0, 1, 3, 4), pipeline_encode("BEQ", 0, 1, 3, 8),
     pipeline_encode("JAL", 1, 0, 0, 8), pipeline_encode("JALR", 3, 1, 0, 1),
     pipeline_encode("LUI", 3, 0, 0, 4096), pipeline_encode("AUIPC", 1, 0, 0, 4096),
     pipeline_encode("NOP", 0, 0, 0, 0)}
MCPrograms == [1 .. 3 -> MCWords]
MCMemories == {[i \in 0 .. 2 |-> IF i = 1 THEN 4 ELSE i]}
MCImmediates == {-2048, -1, 0, 2, 31, 32, 64, 2046, 2047, 2048, 4096, -4096, -1048576, 1048574, -2}

\* Programs of up to three branches at addresses of which two share an entry.
MCTraces == UNION {[1 .. n -> [pc : {1, 2, 5}, taken : BOOLEAN]] : n \in 1 .. 3}

IdlePipeline == pipeline_load_program(CHOOSE p \in MCPrograms : TRUE, CHOOSE m \in MCMemories : TRUE)
IdleTrace == CHOOSE t \in MCTraces : TRUE

MemInit ==
    /\ part \in {"coherence", "vm", "dram", "network", "cache", "pipeline", "branches", "calls", "prefetch"}
    /\ CohInit        /\ (part # "coherence" => protocol = "MSI")
    /\ VmInit         /\ (part # "vm" => policy = "LRU")
    /\ DramInit       /\ (part # "dram" => sched = "FCFS" /\ \A b \in DecodedBanks : banks[b].open_row = 1)
    /\ IntcnInit      /\ (part # "network" => icn.topology = "BUS" /\ icn.mesh_width = 4)
    /\ ArchCacheInit  /\ (part # "cache" => cache[Single].replacement = "LRU" /\ cache[Single].write_policy = "WRITE_BACK")
    /\ PredictorsInit /\ (part # "branches" => trace.branches = IdleTrace) /\ (part # "prefetch" => pf.type = "GHB")
    /\ IF part = "pipeline" THEN PipelineInit ELSE pl = IdlePipeline

Idle(p, vars) == part # p => UNCHANGED vars

MemNext ==
    /\ UNCHANGED part
    /\ \/ part = "coherence" /\ CohNext
       \/ part = "vm"        /\ VmNext /\ (direct' = MaxDirect => clock' <= 2)   \* bound
       \/ part = "dram"      /\ DramNext
       \/ part = "network"   /\ intcn_add_node
       \/ part = "cache"     /\ ArchCacheNext
       \/ part = "pipeline"  /\ pipeline_cycle
       \/ part = "branches"  /\ Branch
       \/ part = "calls"     /\ (ras_push \/ ras_pop)
       \/ part = "prefetch"  /\ PrefetchNext
    /\ Idle("coherence", coh_vars) /\ Idle("vm", vm_vars) /\ Idle("dram", dram_vars) /\ Idle("network", icn)
    /\ Idle("cache", archcache_vars) /\ Idle("pipeline", pl)
    /\ part \notin {"branches", "calls", "prefetch"} => UNCHANGED predictor_vars

MemSpec == MemInit /\ [][MemNext]_<<part, arch_vars>>

\* What keeps old requests from starving and recent lines from being dropped: the DRAM queue
\* serves each request in bounded time and in order on its row (dram_controller.c), and a set
\* holds the tags used last, each once (cache.c).
LevelsServe == DramSound /\ CacheHoldsRecent
================================================================================
