------------------------------ MODULE NetworkLinks ------------------------------
(* mini-network-hardware: the learning switch (src/switch_fabric.c), the packet      *)
(* schedulers (src/qos.c), line codes and scramblers (src/serdes.c), clock           *)
(* synchronisation and gates (src/timestamp.c) and the checks and offloads of        *)
(* frames (src/mac.c, src/offload.c, src/pcie.c).  Counters, rates, printing and     *)
(* the contents of frames that nothing looks at are left out.                        *)
EXTENDS Integers, Sequences, FiniteSets, SequencesExt, FiniteSetsExt, Bitwise

CONSTANTS
    SWITCH_MAX_PORTS, NUM_PORTS, SWITCH_MAC_TABLE_SIZE, Macs,   \* the switch and the stations
    QosClasses,         \* classes of the scheduler, a sequence of [priority, weight, quantum, dscp]
    QOS_DEFAULT_MTU,    \* 1500: the quantum of a class added without one
    Dscps,              \* code points a packet may carry
    PacketSizes,        \* sizes of packets
    MaxServed,          \* bound: frames forwarded by the switch, calls of the scheduler
    LineBytes,          \* bytes sent over the line
    ScramblerWidth, ScramblerTaps, Seeds,   \* bits and taps of the scrambler, seeds it may be given
    WordBits, WordMask, \* 64 and 0xA5A5A5A5A5A5A5A5 in the code
    NS_PER_SECOND,      \* 1000000000
    MaxTime, Offsets, CycleTime,    \* bounds of the clocks, the cycle of the gates
    ETHERNET_MTU, ByteBits, CrcWidth, CrcTaps, SegmentSizes,
    PCIE_TLP_MAX_DATA, ConfigBytes  \* the longest transfer, bytes of the configuration space

VARIABLES
    sw,         \* SwitchFabric, and the ports each station was learnt on
    qs,         \* deficits, the packet at the head of each queue, what was sent
    line,       \* running disparity of both ends, the last byte sent and what was decoded
    scr,        \* scramblers of both ends, bytes each has taken since their reset
    ptp,        \* clocks of master and slave, the timestamps of an exchange, the gate control
    frame,      \* the frame on the wire and what was put into it
    pci         \* bytes of a configuration space and the last writes

links_vars == <<sw, qs, line, scr, ptp, frame, pci>>

-----------------------------------------------------------------------------
(* The switch: a table of stations for every port. *)

Ports == 0 .. SWITCH_MAX_PORTS - 1

switch_init ==
    [up |-> {}, table |-> [p \in Ports |-> <<>>], crossbar |-> {}, tx |-> [p \in Ports |-> 0],
     sent |-> 0, learnt |-> {}]

\* A port beyond num_ports can be added; nothing will be learnt or forwarded there.
switch_add_port(port) ==
    /\ port \notin sw.up
    /\ sw' = [sw EXCEPT !.up = @ \cup {port}, !.table[port] = <<>>, !.tx[port] = 0, !.sent = 0]

switch_learn_mac(mac, port) ==
    /\ port < NUM_PORTS /\ port \in sw.up
    /\ mac \notin Range(sw.table[port])
    /\ Len(sw.table[port]) < SWITCH_MAC_TABLE_SIZE
    /\ sw' = [sw EXCEPT !.table[port] = Append(@, mac), !.learnt = @ \cup {<<mac, port>>}]

\* The lowest port that knows the station wins: a station that moved is sent to its old port.
Forward(mac) ==
    LET knows == {p \in sw.up : p < NUM_PORTS /\ mac \in Range(sw.table[p])}
    IN  IF knows = {} THEN -1 ELSE Min(knows)

switch_forward(mac) ==
    /\ Forward(mac) # -1
    /\ sw' = [sw EXCEPT !.tx[Forward(mac)] = @ + 1, !.sent = @ + 1]

FloodPorts(src) == {p \in sw.up : p < NUM_PORTS /\ p # src}

switch_flood(src) ==
    /\ src < NUM_PORTS
    /\ sw' = [sw EXCEPT !.tx = [p \in Ports |-> IF p \in FloodPorts(src) THEN @[p] + 1 ELSE @[p]],
                        !.sent = @ + Cardinality(FloodPorts(src))]

switch_crossbar_route(src, dst) == sw' = [sw EXCEPT !.crossbar = @ \cup {<<src, dst>>}]
switch_crossbar_clear(src) == sw' = [sw EXCEPT !.crossbar = {c \in @ : c[1] # src}]

SwitchNext ==
    /\ \/ \E p \in Ports : \/ switch_add_port(p)
                           \/ \E mac \in Macs : switch_learn_mac(mac, p)
                           \/ sw.sent < MaxServed /\ switch_flood(p)
                           \/ \E q \in Ports : p < q /\ switch_crossbar_route(p, q)
                           \/ switch_crossbar_clear(p)
       \/ sw.sent < MaxServed /\ \E mac \in Macs : switch_forward(mac)
    /\ UNCHANGED <<qs, line, scr, ptp, frame, pci>>

\* A frame goes to a port the station was learnt on, one learnt anywhere is found, frames sent are
\* counted once each, and no table holds a station twice (switch_forward, switch_learn_mac).
SwitchDelivers ==
    /\ \A mac \in Macs :
          IF \E p \in Ports : <<mac, p>> \in sw.learnt
          THEN <<mac, Forward(mac)>> \in sw.learnt /\ Forward(mac) \in sw.up
          ELSE Forward(mac) = -1
    /\ \A p \in Ports : IsInjective(sw.table[p]) /\ (sw.table[p] # <<>> => p \in sw.up)

-----------------------------------------------------------------------------
(* Schedulers.  For strict priority and deficit round robin the caller passes the   *)
(* size of each head packet, 0 for an empty queue; for weighted round robin the      *)
(* lengths of the queues.                                                            *)

Classes == DOMAIN QosClasses
NoneServed == [c \in Classes |-> 0]
Quantum(c) == IF QosClasses[c].quantum > 0 THEN QosClasses[c].quantum ELSE QOS_DEFAULT_MTU

\* The first class with the code point; others go to the default class, the first.
qos_scheduler_classify(dscp) ==
    LET match == {c \in Classes : dscp \in QosClasses[c].dscp} IN IF match = {} THEN 1 ELSE Min(match)

qos_scheduler_init ==
    [deficit |-> NoneServed, head |-> NoneServed, sent |-> NoneServed, chosen |-> 0, idle |-> 0, calls |-> 0]

qos_schedule_sp(lengths) ==
    LET ready == {c \in Classes : lengths[c] > 0}
        top == Max({QosClasses[c].priority : c \in ready})
    IN  IF ready = {} THEN 0 ELSE Min({c \in ready : QosClasses[c].priority = top})

\* One round serves up to weight packets of every class.
qos_schedule_wrr(lengths) == [c \in Classes |-> Min({lengths[c], QosClasses[c].weight})]

\* Mutant of DrrScan: a class that cannot send keeps nothing for the next round.
DrrScanForgets(deficit, head) ==
    LET able == {c \in Classes : head[c] > 0 /\ deficit[c] + Quantum(c) >= head[c]}
    IN  IF able = {} THEN [deficit |-> NoneServed, chosen |-> 0]
        ELSE [deficit |-> [deficit EXCEPT ![Min(able)] = @ + Quantum(Min(able)) - head[Min(able)]],
              chosen |-> Min(able)]

\* Quanta are added class by class, at most one round per class, until one can send; the
\* next call starts at the first class again.
DrrScan(deficit, head) ==
    LET n == Len(QosClasses)
        Class(k) == ((k - 1) % n) + 1
        Scan[k \in 0 .. n * n] ==
            IF k = 0 THEN [deficit |-> deficit, chosen |-> 0]
            ELSE LET s == Scan[k - 1]
                     c == Class(k)
                     d == [s.deficit EXCEPT ![c] = @ + Quantum(c)]
                 IN  IF s.chosen # 0 \/ head[c] = 0 THEN s
                     ELSE IF d[c] >= head[c] THEN [deficit |-> [d EXCEPT ![c] = @ - head[c]], chosen |-> c]
                     ELSE [deficit |-> d, chosen |-> 0]
    IN  Scan[n * n]

drr_schedule_next ==
    LET s == DrrScan(qs.deficit, qs.head)
    IN  /\ qs.head # NoneServed
        /\ qs.chosen = 0
        /\ qs' = [qs EXCEPT !.deficit = s.deficit, !.chosen = s.chosen, !.calls = @ + 1,
                            !.sent = IF \E c \in Classes : qs.head[c] = 0 THEN NoneServed
                                     ELSE IF s.chosen = 0 THEN @ ELSE [@ EXCEPT ![s.chosen] = @ + qs.head[s.chosen]],
                            !.head = IF s.chosen = 0 THEN @ ELSE [@ EXCEPT ![s.chosen] = 0],
                            !.idle = IF s.chosen = 0 THEN @ + 1 ELSE 0]

\* External: the caller takes the packet that was sent off its queue, and packets arrive.
QueueFills ==
    \/ /\ qs.chosen # 0
       /\ \E size \in PacketSizes \cup {0} : qs' = [qs EXCEPT !.head[qs.chosen] = size, !.chosen = 0]
    \/ \E dscp \in Dscps, size \in PacketSizes :
          LET c == qos_scheduler_classify(dscp)
          IN  /\ qs.head[c] = 0 /\ qs.chosen = 0
              /\ qs' = [qs EXCEPT !.head[c] = size]

QosNext ==
    /\ qs.calls < MaxServed
    /\ drr_schedule_next \/ QueueFills
    /\ UNCHANGED <<sw, line, scr, ptp, frame, pci>>

\* Deficits are never negative, a waiting packet is sent after as many idle calls as its size
\* takes quanta at most, strict priority never passes over a higher class, and a weighted round
\* gives every backlogged class exactly its weight (drr_schedule_next, qos_schedule_sp, qos_schedule_wrr).
SchedulersWork ==
    /\ \A c \in Classes : /\ qs.deficit[c] >= 0
                          /\ qs.head[c] > 0 /\ qs.idle > 0 =>
                                qs.idle * Len(QosClasses) * Quantum(c) < Max(PacketSizes) + Quantum(c)
    /\ qs.head # NoneServed =>
          LET c == qos_schedule_sp(qs.head)
          IN  qs.head[c] > 0 /\ \A d \in Classes : qs.head[d] > 0 => QosClasses[d].priority <= QosClasses[c].priority
    /\ LET round == qos_schedule_wrr(qs.head)
       IN  \A c, d \in Classes : qs.head[c] >= QosClasses[c].weight /\ qs.head[d] >= QosClasses[d].weight
                                    => round[c] * QosClasses[d].weight = round[d] * QosClasses[c].weight

\* What deficit round robin promises, "within one quantum of ideal fair queuing" (qos.c:128): while
\* no queue was empty, the bytes two classes of one quantum sent differ by a quantum and the two
\* packets in progress at most (drr_schedule_next).
DrrFair ==
    \A c, d \in Classes :
        Quantum(c) = Quantum(d) => qs.sent[c] - qs.sent[d] <= Quantum(c) + 2 * Max(PacketSizes)

-----------------------------------------------------------------------------
(* The 8b/10b line: five bits of a byte as six, three as four, each in two forms.    *)

Ones[n \in Nat] == IF n = 0 THEN 0 ELSE (n % 2) + Ones[n \div 2]
code_disparity(code, bits) == 2 * Ones[code] - bits

enc_5b6b == [i \in 0 .. 31 |-> [rd_minus |-> i, rd_plus |-> 63 - i]]
enc_3b4b == [i \in 0 .. 7 |-> [rd_minus |-> i, rd_plus |-> 15 - i]]
ControlCodes == {15, 48}

Disparity(rd, sum) == IF sum > 0 THEN 1 ELSE IF sum < 0 THEN -1 ELSE rd
Coded(entry, rd) == IF rd = -1 THEN entry.rd_minus ELSE entry.rd_plus

\* Mutant of serdes_8b10b_encode: a control symbol leaves the disparity of the sender alone.
EncodeKeepsDisparity(byte, control, rd) ==
    LET six == IF control THEN IF rd = -1 THEN 15 ELSE 48 ELSE Coded(enc_5b6b[byte % 32], rd)
        four == Coded(enc_3b4b[byte \div 32], rd)
        sum == code_disparity(six, 6) + code_disparity(four, 4)
    IN  [symbol |-> <<six, four>>, rd |-> IF control THEN rd ELSE Disparity(rd, sum)]

\* The four bits are chosen by the disparity after the six; those of a control by the one before.
serdes_8b10b_encode(byte, control, rd) ==
    LET six == IF control THEN IF rd = -1 THEN 15 ELSE 48 ELSE Coded(enc_5b6b[byte % 32], rd)
        mid == IF control THEN rd ELSE Disparity(rd, code_disparity(six, 6))
        four == Coded(enc_3b4b[byte \div 32], mid)
    IN  [symbol |-> <<six, four>>,
         rd |-> Disparity(rd, code_disparity(six, 6) + code_disparity(four, 4))]

\* A control is told by its six bits only, and always becomes 28 in its low five bits.
serdes_8b10b_decode(symbol, rd) ==
    LET Holds(entry, code) == entry.rd_minus = code \/ entry.rd_plus = code
        five == {i \in DOMAIN enc_5b6b : Holds(enc_5b6b[i], symbol[1])}
        three == {i \in DOMAIN enc_3b4b : Holds(enc_3b4b[i], symbol[2])}
        control == symbol[1] \in ControlCodes
    IN  [byte |-> (IF control THEN 28 ELSE Min(five)) + 32 * Min(three), control |-> control,
         rd |-> Disparity(rd, code_disparity(symbol[1], 6) + code_disparity(symbol[2], 4))]

\* No run of more than five equal bits, and both codes known (every code of six or four bits is).
serdes_8b10b_is_valid_symbol(symbol) ==
    LET bits == [i \in 0 .. 9 |-> IF i < 6 THEN (symbol[1] \div 2 ^ i) % 2 ELSE (symbol[2] \div 2 ^ (i - 6)) % 2]
    IN  ~ \E i \in 0 .. 4 : \A j \in i .. i + 5 : bits[j] = bits[i]

SendByte(byte, control) ==
    LET sent == serdes_8b10b_encode(byte, control, line.tx)
        got == serdes_8b10b_decode(sent.symbol, line.rx)
    IN  line' = [tx |-> sent.rd, rx |-> got.rd, byte |-> byte, control |-> control,
                 valid |-> serdes_8b10b_is_valid_symbol(sent.symbol), got |-> <<got.byte, got.control>>]

LineNext ==
    /\ \E byte \in LineBytes : SendByte(byte, FALSE) \/ SendByte(byte, TRUE)
    /\ UNCHANGED <<sw, qs, scr, ptp, frame, pci>>

\* The ends agree on the disparity whatever was sent, and a byte whose low five bits are not the
\* pattern of a control arrives as it was sent (serdes_8b10b_encode, serdes_8b10b_decode).
LineCarriesBytes ==
    /\ line.tx = line.rx
    /\ ~line.control /\ line.byte % 32 # 15 => line.got = <<line.byte, FALSE>>
    /\ line.control => line.got = <<28 + 32 * (line.byte \div 32), TRUE>>

-----------------------------------------------------------------------------
(* Scramblers at both ends of a link, the mask of 64b/66b and the levels of PAM4.    *)

scrambler_init(seed) == [i \in 0 .. ScramblerWidth - 1 |-> (seed \div 2 ^ i) % 2]

Feedback(state) == FoldSet(LAMBDA i, odd : (odd + state[i]) % 2, 0, ScramblerTaps)

scrambler_step(state) ==
    [i \in 0 .. ScramblerWidth - 1 |-> IF i = ScramblerWidth - 1 THEN Feedback(state) ELSE state[i + 1]]

\* The state after a byte, and the bits the byte is xored with, first bit first.
ScrambledByte(state) ==
    LET Run[k \in 0 .. 8] ==
            IF k = 0 THEN [state |-> state, bits |-> <<>>]
            ELSE LET r == Run[k - 1] IN [state |-> scrambler_step(r.state), bits |-> Append(r.bits, r.state[0])]
    IN  Run[8]

scrambler_process(end) ==
    scr' = [scr EXCEPT ![end].state = ScrambledByte(@).state, ![end].bytes = @ + 1,
                       ![end].bits = ScrambledByte(scr[end].state).bits]

scrambler_reset(end) == scr' = [scr EXCEPT ![end] = [state |-> scrambler_init(scr.seed), bytes |-> 0, bits |-> <<>>]]

ScrambleNext ==
    /\ \E end \in {"tx", "rx"} : \/ scr[end].bytes < 5 /\ scrambler_process(end)
                                 \/ scrambler_reset(end)
    /\ UNCHANGED <<sw, qs, line, ptp, frame, pci>>

\* Two bits of the word are lost to the header: the word is not wider than its code.
serdes_64b66b_encode(word, header) == (((word ^^ WordMask) * 4) % 2 ^ WordBits) + header
serdes_64b66b_decode(code) ==
    IF code % 4 \in {1, 2} THEN <<(code \div 4) ^^ WordMask, code % 4>> ELSE <<>>

pam4_encode_bits(bits) == CASE bits = 0 -> -3 [] bits = 1 -> -1 [] bits = 3 -> 1 [] bits = 2 -> 3
pam4_decode_to_bits(s) == IF s <= -2 THEN 0 ELSE IF s <= 0 THEN 1 ELSE IF s <= 2 THEN 3 ELSE 2

\* As many bytes after a reset both ends give the same bits, and no scrambler falls silent; a word
\* of two bits less than the code survives it; a level read wrong by one step costs one bit.
ScramblersAgree ==
    /\ scr.tx.bytes = scr.rx.bytes => scr.tx = scr.rx
    /\ \A end \in {"tx", "rx"} : \E i \in DOMAIN scr[end].state : scr[end].state[i] = 1
    /\ \A word \in 0 .. 2 ^ WordBits - 1, header \in 0 .. 3 :
          LET got == serdes_64b66b_decode(serdes_64b66b_encode(word, header))
          IN  IF header \in {1, 2}
              THEN got[2] = header /\ (word - got[1]) % 2 ^ (WordBits - 2) = 0
              ELSE got = <<>>
    /\ \A bits, read \in 0 .. 3 :
          LET noise == pam4_encode_bits(read) - pam4_encode_bits(bits)
          IN  /\ pam4_decode_to_bits(pam4_encode_bits(bits)) = bits
              /\ noise \in {-2, 2} => Ones[bits ^^ read] = 1

-----------------------------------------------------------------------------
(* Clock synchronisation: a master's Sync and a slave's request, stamped as they     *)
(* leave and arrive, and the gates of time-aware shaping.                            *)

ptp_timestamp_normalize(t) ==
    [seconds |-> t.seconds + (t.nanoseconds \div NS_PER_SECOND), nanoseconds |-> t.nanoseconds % NS_PER_SECOND]

ptp_timestamp_set(seconds, nanoseconds) ==
    ptp_timestamp_normalize([seconds |-> seconds, nanoseconds |-> nanoseconds])

\* Mutant of ptp_clock_step: the nanoseconds wrap and the second they make is lost.
StepNoCarry(t, elapsed) ==
    [seconds |-> t.seconds + (elapsed \div NS_PER_SECOND),
     nanoseconds |-> (t.nanoseconds + (elapsed % NS_PER_SECOND)) % NS_PER_SECOND]

\* A clock whose frequency is not adjusted.
ptp_clock_step(t, elapsed) ==
    ptp_timestamp_normalize([seconds |-> t.seconds + (elapsed \div NS_PER_SECOND),
                             nanoseconds |-> t.nanoseconds + (elapsed % NS_PER_SECOND)])

ptp_timestamp_diff_ns(a, b) == (a.seconds - b.seconds) * NS_PER_SECOND + (a.nanoseconds - b.nanoseconds)

\* Twice the offset and twice the delay; both take a complete exchange.
ptp_calculate_offset(t) ==
    LET forth == ptp_timestamp_diff_ns(t[2], t[1])
        back == ptp_timestamp_diff_ns(t[4], t[3])
    IN  [offset |-> forth - back, delay |-> forth + back]

tsn_gate_advance(remaining, elapsed) == IF elapsed >= remaining THEN CycleTime ELSE remaining - elapsed

ClocksAdvance(elapsed) ==
    /\ ptp.now + elapsed <= MaxTime
    /\ ptp' = [ptp EXCEPT !.now = @ + elapsed, !.master = ptp_clock_step(@, elapsed),
                          !.slave = ptp_clock_step(@, elapsed), !.gate = tsn_gate_advance(@, elapsed)]

\* The four stamps are taken in turn: sent by the master, received and sent by the slave,
\* received by the master (hw_timestamp_capture_tx, hw_timestamp_capture_rx).
hw_timestamp_capture ==
    /\ Len(ptp.stamps) < 4
    /\ ptp' = [ptp EXCEPT !.stamps = Append(@, IF Len(@) \in {0, 3} THEN ptp.master ELSE ptp.slave),
                          !.at = Append(@, ptp.now)]

ptp_delay_measurement_init == ptp.stamps # <<>> /\ ptp' = [ptp EXCEPT !.stamps = <<>>, !.at = <<>>]

PtpNext ==
    /\ \/ \E elapsed \in 1 .. MaxTime : ClocksAdvance(elapsed)
       \/ hw_timestamp_capture
       \/ ptp_delay_measurement_init
    /\ UNCHANGED <<sw, qs, line, scr, frame, pci>>

\* The offset computed is wrong by half the difference of the two delays and no more, whatever the
\* seconds did meanwhile, and a cycle of the gates never overruns (ptp_calculate_offset, ptp_clock_step).
ClocksMeasured ==
    /\ Len(ptp.stamps) = 4 =>
          LET found == ptp_calculate_offset(ptp.stamps)
              forth == ptp.at[2] - ptp.at[1]
              back == ptp.at[4] - ptp.at[3]
          IN  found = [offset |-> 2 * ptp.offset + forth - back, delay |-> forth + back]
    /\ ptp.gate \in 1 .. CycleTime

-----------------------------------------------------------------------------
(* Frames: check sequences, checksums, segments; and transfers of PCI Express.       *)

XorBits(a, b) == [i \in DOMAIN a |-> (a[i] + b[i]) % 2]
Shifted(crc, k) == [i \in 1 .. CrcWidth |-> IF i + k <= CrcWidth THEN crc[i + k] ELSE 0]
ByteValues == [1 .. ByteBits -> {0, 1}]

\* What ByteBits steps of the register give for each byte; the low bit comes first.
crc_table ==
    [byte \in ByteValues |->
        LET poly == [i \in 1 .. CrcWidth |-> IF i \in CrcTaps THEN 1 ELSE 0]
            Step[k \in 0 .. ByteBits] ==
                IF k = 0 THEN [i \in 1 .. CrcWidth |-> IF i <= ByteBits THEN byte[i] ELSE 0]
                ELSE LET c == Step[k - 1] IN IF c[1] = 1 THEN XorBits(poly, Shifted(c, 1)) ELSE Shifted(c, 1)
        IN  Step[ByteBits]]

\* Mutant of mac_crc32: the bytes shifted out are not folded in.
CrcNotChained(data) == IF data = <<>> THEN [i \in 1 .. CrcWidth |-> 0] ELSE crc_table[data[Len(data)]]

mac_crc32(data) ==
    LET ones == [i \in 1 .. CrcWidth |-> 1]
        Next(crc, byte) == XorBits(crc_table[[i \in 1 .. ByteBits |-> (crc[i] + byte[i]) % 2]], Shifted(crc, ByteBits))
    IN  XorBits(ones, FoldLeft(Next, ones, data))

\* What is longer than a frame is cut; addresses and type are bytes like the others.
mac_frame_build(payload) ==
    LET data == SubSeq(payload, 1, Min({Len(payload), ETHERNET_MTU}))
    IN  frame' = [sent |-> data, data |-> data, fcs |-> mac_crc32(data), burst |-> 0]

mac_frame_check == mac_crc32(frame.data) = frame.fcs

\* External: the wire changes bits that lie within the width of the check sequence.
WireCorrupts ==
    \E first \in 1 .. Len(frame.data) * ByteBits, last \in 1 .. Len(frame.data) * ByteBits :
        /\ first <= last /\ last < first + CrcWidth /\ frame.burst = 0
        /\ \E inside \in SUBSET (first + 1 .. last - 1) :
              LET hit == inside \cup {first, last}
              IN  frame' = [frame EXCEPT !.burst = last - first + 1,
                      !.data = [j \in DOMAIN @ |->
                          [i \in 1 .. ByteBits |-> IF (j - 1) * ByteBits + i \in hit THEN 1 - @[j][i] ELSE @[j][i]]]]

\* Pairs of bytes are added, a last one alone as the high byte; carries come back in below.
offload_csum_compute(data) ==
    LET base == 2 ^ ByteBits
        Value(byte) == FoldSet(LAMBDA i, n : n + byte[i] * 2 ^ (i - 1), 0, DOMAIN byte)
        Sum == FoldSet(LAMBDA i, n : n + Value(data[i]) * (IF i % 2 = 1 THEN base ELSE 1), 0, DOMAIN data)
        Folded[n \in Nat] == IF n < base * base THEN n ELSE Folded[(n % (base * base)) + (n \div (base * base))]
    IN  base * base - 1 - Folded[Sum]

\* Segments of mss bytes, the last filled up with zeroes; merging takes a whole MTU of each.
offload_tso_segment(packet, mss) ==
    LET zero == [i \in 1 .. ByteBits |-> 0]
    IN  [s \in 1 .. ((Len(packet) + mss - 1) \div mss) |->
            [i \in 1 .. mss |-> IF (s - 1) * mss + i <= Len(packet) THEN packet[(s - 1) * mss + i] ELSE zero]]

offload_lro_merge(packets) == FlattenSeq([p \in DOMAIN packets |-> SubSeq(packets[p], 1, ETHERNET_MTU)])

FrameNext ==
    /\ \/ \E length \in 1 .. ETHERNET_MTU + 1 : \E payload \in [1 .. length -> ByteValues] : mac_frame_build(payload)
       \/ WireCorrupts
    /\ UNCHANGED <<sw, qs, line, scr, ptp, pci>>

\* Every burst no longer than the check sequence is found and nothing else is refused; a checksum
\* finds a change within one byte; segments put together are the packet and zeroes
\* (mac_frame_check, offload_checksum_verify, offload_tso_segment, offload_lro_merge).
FramesChecked ==
    /\ mac_frame_check <=> frame.data = frame.sent
    /\ Cardinality({j \in DOMAIN frame.data : frame.data[j] # frame.sent[j]}) = 1
          => offload_csum_compute(frame.data) # offload_csum_compute(frame.sent)
    /\ \A mss \in SegmentSizes :
          LET segments == offload_tso_segment(frame.sent, mss)
              whole == FlattenSeq(segments)
          IN  /\ SubSeq(whole, 1, Len(frame.sent)) = frame.sent
              /\ Len(whole) < Len(frame.sent) + mss
              /\ mss = ETHERNET_MTU => offload_lro_merge(segments) = whole

Transfer(length) == IF length > PCIE_TLP_MAX_DATA THEN PCIE_TLP_MAX_DATA ELSE length
pcie_tlp_create_read(address, length) == [address |-> address, length |-> Transfer(length), has_data |-> FALSE]
pcie_tlp_create_write(address, data) ==
    [address |-> address, length |-> Transfer(Len(data)), has_data |-> data # <<>>]

\* Lanes to send and lanes to receive; a link of more than half the lanes writes past their array.
pcie_link_init(lanes) ==
    [lane \in 0 .. 2 * lanes - 1 |-> IF lane < lanes THEN "PCIE_DIR_TX" ELSE "PCIE_DIR_RX"]

\* Four bytes always, low byte first; the offset is held against 256 and not against the structure.
pcie_config_space_write(offset, value) ==
    /\ offset + 3 < ConfigBytes
    /\ pci' = [bytes |-> [b \in DOMAIN pci.bytes |->
                    IF b - offset \in 0 .. 3 THEN value[b - offset + 1] ELSE pci.bytes[b]],
               last |-> <<offset, value>>, before |-> pci.last, writes |-> pci.writes + 1]

\* One byte, two, or for every other length four.
pcie_config_space_read(offset, len) ==
    [i \in 1 .. (IF len \in {1, 2} THEN len ELSE 4) |-> pci.bytes[offset + i - 1]]

PciNext ==
    /\ pci.writes < 2
    /\ \E offset \in 0 .. ConfigBytes - 1, value \in [1 .. 4 -> {1, 2}] : pcie_config_space_write(offset, value)
    /\ UNCHANGED <<sw, qs, line, scr, ptp, frame>>

\* The last write reads back in bytes, halves and words, and of the one before it what was not
\* written over (pcie_config_space_write, pcie_config_space_read).
ConfigReadsBack ==
    \A len \in {1, 2, 4} :
        /\ pci.last # <<>> => pcie_config_space_read(pci.last[1], len) = SubSeq(pci.last[2], 1, len)
        /\ pci.before # <<>> /\ (pci.before[1] + len <= pci.last[1] \/ pci.last[1] + 3 < pci.before[1])
              => pcie_config_space_read(pci.before[1], len) = SubSeq(pci.before[2], 1, len)

-----------------------------------------------------------------------------
LinksInit ==
    /\ sw = switch_init
    /\ qs = qos_scheduler_init
    /\ line = [tx |-> -1, rx |-> -1, byte |-> 0, control |-> FALSE, valid |-> TRUE, got |-> <<0, FALSE>>]
    /\ \E seed \in Seeds :
          LET fresh == [state |-> scrambler_init(seed), bytes |-> 0, bits |-> <<>>]
          IN  scr = [seed |-> seed, tx |-> fresh, rx |-> fresh]
    /\ \E offset \in Offsets :
          ptp = [master |-> ptp_timestamp_set(0, 0), slave |-> ptp_timestamp_set(0, offset), offset |-> offset,
                 now |-> 0, stamps |-> <<>>, at |-> <<>>, gate |-> CycleTime]
    /\ frame = [sent |-> <<>>, data |-> <<>>, fcs |-> mac_crc32(<<>>), burst |-> 0]
    /\ pci = [bytes |-> [b \in 0 .. ConfigBytes - 1 |-> 0], last |-> <<>>, before |-> <<>>, writes |-> 0]

LinksNext == SwitchNext \/ QosNext \/ LineNext \/ ScrambleNext \/ PtpNext \/ FrameNext \/ PciNext

\* Stations are found, backlogged classes served, bytes, words and levels arrive as they were sent,
\* clocks are measured to the asymmetry of the path, and corruption of frames is found.
LinksSound ==
    /\ SwitchDelivers /\ SchedulersWork /\ LineCarriesBytes /\ ScramblersAgree
    /\ ClocksMeasured /\ FramesChecked /\ ConfigReadsBack
================================================================================
