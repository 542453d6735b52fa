----------------------------- MODULE EthDriver -----------------------------
(***************************************************************************)
(* The Ethernet path: the driver (src/networking/driver/drv_eth_xc.c) and  *)
(* its two users, network_cyclic_process and netif_output                  *)
(* (src/network_lwip.c).                                                   *)
(*                                                                         *)
(* Program and XC unit pass frame buffers through pointer FIFOs: EMPTY     *)
(* (both sides take and give), IND_LO (received) and REQ_LO (to send). The *)
(* XC unit is hardware and runs while the program does; its microcode is   *)
(* external and modelled by how the driver uses it. A FIFO element is the  *)
(* number the register holds.                                              *)
(*                                                                         *)
(* StopsPolling, KeepsOnNoPbuf and GivenByReference are faulty variants of *)
(* the definitions that follow them; no action uses them.                  *)
(***************************************************************************)
EXTENDS Integers, Sequences

CONSTANTS
    Rom,       \* the frame buffers, <<segment, number>>, as the ROM has queued them
    IntRam0,   \* Addr_NX4000_intram0
    MaxIn,     \* bound: frames that arrive
    MaxOut     \* bound: frames lwIP sends

FrameBufSize == 1560
SegmentSize == 128 * 1024   \* 0x00020000
Segments == 0..3
Numbers == 0..63        \* six bits of the FIFO element

ASSUME RomAssumption ==
    /\ Rom \in Seq(Segments \X Numbers)
    /\ \A i, j \in 1..Len(Rom) : Rom[i] = Rom[j] => i = j
\* The NOTE in convert_packet_pointer_to_fifo_value.
ASSUME RamAssumption == IntRam0 \in Nat /\ IntRam0 % (4 * SegmentSize) = 0
ASSUME BoundAssumption == MaxIn \in Nat /\ MaxOut \in Nat

\* The pointers the XC unit can take between two register reads: one frame on
\* the wire lasts longer than the few cycles between them.
XcBurst == 1

-----------------------------------------------------------------------------
(* FIFO elements: FRAME_LEN in the bits 0 to 10, SUPPRESS_CON in bit 14,    *)
(* FRAME_BUF_NUM in the bits 16 to 21, INT_RAM_SEGMENT_NUM from bit 22.     *)

Bit16 == 64 * 1024
Bit22 == 64 * Bit16

Element(f) == f[1] * Bit22 + f[2] * Bit16
FrameOf(v) == <<(v \div Bit22) % 16, (v \div Bit16) % 64>>

\* convert_fifo_value_to_packet_pointer
Pointer(v) == IntRam0 + FrameOf(v)[1] * SegmentSize + FrameBufSize * FrameOf(v)[2]

\* convert_packet_pointer_to_fifo_value
FifoValue(p) ==
    ((p \div SegmentSize) % 4) * Bit22 + ((p % SegmentSize) \div FrameBufSize) * Bit16

\* drv_eth_xc_send_packet pads and crops.
SendSize(n) == IF n < 60 THEN 60 ELSE IF n > 1518 THEN 1518 ELSE n
SuppressCon == 16 * 1024

-----------------------------------------------------------------------------
VARIABLES
    pc, ret,       \* where the program is, and where netif_output returns to
    pkt,           \* pvFrame
    buf,           \* the contents of the pbuf
    linkUp,        \* the link flag of the lwIP interface
    phy,           \* the link bit of the PHY
    empty, ind, req,   \* the FIFOs EMPTY, IND_LO and REQ_LO
    taken,         \* pointers the XC unit took since the fill level was read
    rx, tx,        \* the elements the XC unit works with
    mem,           \* the frame buffers: k for the k-th frame to arrive, -k for
                   \* the k-th frame to send
    arrived,       \* the number of frames that have arrived at the port
    got,           \* the last frame lwIP was given
    sent,          \* the number of frames netif_output has queued
    wire           \* the last frame that has left the port

vars == <<pc, ret, pkt, buf, linkUp, phy, empty, ind, req, taken, rx, tx, mem,
          arrived, got, sent, wire>>

None == -1
Frames == {Rom[i] : i \in 1..Len(Rom)}
Elements == {Element(f) : f \in Frames}
Buffers == {Pointer(v) : v \in Elements}
RxLen == 64      \* any length of a received frame
TxLen == 42      \* any length of a frame to send, here one that is padded

\* The ROM has set up the XC unit; setupNetwork takes the link for up.
Init ==
    /\ pc = "idle" /\ ret = "idle" /\ pkt = None /\ buf = 0
    /\ phy \in BOOLEAN /\ linkUp = TRUE
    /\ empty = [i \in 1..Len(Rom) |-> Element(Rom[i])]
    /\ ind = <<>> /\ req = <<>> /\ taken = 0 /\ rx = None /\ tx = None
    /\ mem = [b \in Buffers |-> 0]
    /\ arrived = 0 /\ got = 0 /\ sent = 0 /\ wire = 0

-----------------------------------------------------------------------------
(* network_cyclic_process *)

StopsPolling == phy /\ linkUp

\* drv_eth_xc_get_link_status, as network_cyclic_process tests it.
LinkStatus == phy

\* The link test, and drv_eth_xc_get_received_packet: nobody else takes from
\* IND_LO, so its fill level still holds when it is read.
Poll ==
    /\ pc = "idle"
    /\ \/ /\ ~LinkStatus
          /\ linkUp' = FALSE /\ pc' = "timers" /\ UNCHANGED <<pkt, ind>>
       \/ /\ LinkStatus /\ ind = <<>>
          /\ pc' = "timers" /\ UNCHANGED <<linkUp, pkt, ind>>
       \/ /\ LinkStatus /\ ind # <<>>
          /\ pkt' = Pointer(Head(ind)) /\ ind' = Tail(ind)
          /\ pc' = "alloc" /\ UNCHANGED linkUp
    /\ UNCHANGED <<ret, buf, phy, empty, req, taken, rx, tx, mem, arrived, got, sent, wire>>

\* drv_eth_xc_release_packet
ReleasePacket == empty' = Append(empty, FifoValue(pkt))

KeepsOnNoPbuf == UNCHANGED empty

\* What happens to the frame when the pool has no pbuf.
NoPbuf == ReleasePacket

\* pbuf_alloc; the pool may be exhausted at any time.
Alloc ==
    /\ pc = "alloc"
    /\ \/ pc' = "take" /\ UNCHANGED empty
       \/ pc' = "timers" /\ NoPbuf
    /\ UNCHANGED <<ret, pkt, buf, linkUp, phy, ind, req, taken, rx, tx, mem, arrived, got, sent, wire>>

\* pbuf_take
Take ==
    /\ pc = "take" /\ pc' = "release"
    /\ buf' = mem[pkt]
    /\ UNCHANGED <<ret, pkt, linkUp, phy, empty, ind, req, taken, rx, tx, mem, arrived, got, sent, wire>>

Release ==
    /\ pc = "release" /\ pc' = "input"
    /\ ReleasePacket
    /\ UNCHANGED <<ret, pkt, buf, linkUp, phy, ind, req, taken, rx, tx, mem, arrived, got, sent, wire>>

GivenByReference == mem[pkt]

\* The data the input function of the interface works with.
Given == buf

\* ptNetIf->input: lwIP may answer at once.
Input ==
    /\ pc = "input"
    /\ got' = Given
    /\ ret' = "timers"
    /\ pc' = "timers" \/ (pc' = "out_check" /\ sent < MaxOut)
    /\ UNCHANGED <<pkt, buf, linkUp, phy, empty, ind, req, taken, rx, tx, mem, arrived, sent, wire>>

\* sys_check_timeouts, and what the program sends until it polls again.
Timers ==
    /\ pc = "timers"
    /\ ret' = "idle"
    /\ pc' = "idle" \/ (pc' = "out_check" /\ sent < MaxOut)
    /\ UNCHANGED <<pkt, buf, linkUp, phy, empty, ind, req, taken, rx, tx, mem, arrived, got, sent, wire>>

-----------------------------------------------------------------------------
(* netif_output *)

\* The test of the fill level in drv_eth_xc_get_empty_packet.
Spare(n) == n > 1

\* drv_eth_xc_get_empty_packet up to the test; without a spare pointer
\* netif_output returns ERR_BUF.
OutCheck ==
    /\ pc = "out_check"
    /\ taken' = 0
    /\ pc' = IF Spare(Len(empty)) THEN "out_pop" ELSE ret
    /\ UNCHANGED <<ret, pkt, buf, linkUp, phy, empty, ind, req, rx, tx, mem, arrived, got, sent, wire>>

\* The read of the FIFO (what an empty FIFO would deliver is unspecified, see
\* NoPopOnEmpty).
OutPop ==
    /\ pc = "out_pop" /\ pc' = "out_copy"
    /\ empty # <<>> /\ pkt' = Pointer(Head(empty)) /\ empty' = Tail(empty)
    /\ UNCHANGED <<ret, buf, linkUp, phy, ind, req, taken, rx, tx, mem, arrived, got, sent, wire>>

\* pbuf_copy_partial
OutCopy ==
    /\ pc = "out_copy" /\ pc' = "out_send"
    /\ mem' = [mem EXCEPT ![pkt] = -(sent + 1)]
    /\ UNCHANGED <<ret, pkt, buf, linkUp, phy, empty, ind, req, taken, rx, tx, arrived, got, sent, wire>>

\* drv_eth_xc_send_packet
OutSend ==
    /\ pc = "out_send" /\ pc' = ret
    /\ req' = Append(req, FifoValue(pkt) + SuppressCon + SendSize(TxLen))
    /\ sent' = sent + 1
    /\ UNCHANGED <<ret, pkt, buf, linkUp, phy, empty, ind, taken, rx, tx, mem, arrived, got, wire>>

Cpu ==
    \/ Poll \/ Alloc \/ Take \/ Release \/ Input \/ Timers
    \/ OutCheck \/ OutPop \/ OutCopy \/ OutSend

-----------------------------------------------------------------------------
(* The XC unit and the PHY (external) *)

\* A buffer for the next frame.
XcTake ==
    /\ rx = None /\ empty # <<>>
    /\ pc = "out_pop" => taken < XcBurst
    /\ taken' = IF pc = "out_pop" THEN taken + 1 ELSE taken
    /\ rx' = Head(empty) /\ empty' = Tail(empty)
    /\ UNCHANGED <<pc, ret, pkt, buf, linkUp, phy, ind, req, tx, mem, arrived, got, sent, wire>>

\* A frame arrives; without a buffer it is lost.
XcReceive ==
    /\ phy /\ arrived < MaxIn
    /\ arrived' = arrived + 1
    /\ \/ /\ rx # None
          /\ mem' = [mem EXCEPT ![Pointer(rx)] = arrived']
          /\ ind' = Append(ind, Element(FrameOf(rx)) + RxLen) /\ rx' = None
       \/ rx = None /\ UNCHANGED <<mem, ind, rx>>
    /\ UNCHANGED <<pc, ret, pkt, buf, linkUp, phy, empty, req, taken, tx, got, sent, wire>>

XcSend ==
    /\ tx = None /\ req # <<>>
    /\ tx' = Head(req) /\ req' = Tail(req)
    /\ UNCHANGED <<pc, ret, pkt, buf, linkUp, phy, empty, ind, taken, rx, mem, arrived, got, sent, wire>>

\* The frame is out; without a confirmation its buffer is free again.
XcSent ==
    /\ tx # None /\ tx' = None
    /\ wire' = -mem[Pointer(tx)]
    /\ empty' = Append(empty, Element(FrameOf(tx)))
    /\ UNCHANGED <<pc, ret, pkt, buf, linkUp, phy, ind, req, taken, rx, mem, arrived, got, sent>>

PhyLink ==
    /\ phy' = ~phy
    /\ UNCHANGED <<pc, ret, pkt, buf, linkUp, empty, ind, req, taken, rx, tx, mem, arrived, got, sent, wire>>

Xc == XcTake \/ XcReceive \/ XcSend \/ XcSent

Next == Cpu \/ Xc \/ PhyLink

\* The program polls for ever and the XC unit sends what it is given; nothing is
\* assumed of the frames that arrive or of the link.
Spec == Init /\ [][Next]_vars /\ WF_vars(Cpu) /\ WF_vars(XcSend) /\ WF_vars(XcSent)

-----------------------------------------------------------------------------
Pcs == {"idle", "alloc", "take", "release", "input", "timers",
        "out_check", "out_pop", "out_copy", "out_send"}

\* The FIFOs and the XC unit only ever hold elements of buffers of the ROM: no
\* conversion (convert_packet_pointer_to_fifo_value) invents one.
TypeOK ==
    /\ pc \in Pcs /\ ret \in {"idle", "timers"}
    /\ pkt \in Buffers \cup {None} /\ buf \in Int
    /\ linkUp \in BOOLEAN /\ phy \in BOOLEAN
    /\ empty \in Seq(Elements)
    /\ ind \in Seq({v + RxLen : v \in Elements})
    /\ req \in Seq({v + SuppressCon + SendSize(TxLen) : v \in Elements})
    /\ taken \in 0..XcBurst
    /\ rx \in Elements \cup {None}
    /\ tx \in {v + SuppressCon + SendSize(TxLen) : v \in Elements} \cup {None}
    /\ mem \in [Buffers -> Int]
    /\ arrived \in 0..MaxIn /\ got \in Int /\ sent \in 0..MaxOut /\ wire \in Int

\* The program holds pvFrame between the calls that get it and give it away.
Held == IF pc \in {"alloc", "take", "release", "out_copy", "out_send"} THEN <<pkt>> ELSE <<>>

Busy(v) == IF v = None THEN <<>> ELSE <<v>>

\* Where the frame buffers are, in one sequence of addresses.
Places ==
    LET s == empty \o ind \o req \o Busy(rx) \o Busy(tx)
    IN  [i \in 1..Len(s) |-> Pointer(s[i])] \o Held

\* Every frame buffer is in exactly one place: none is lost on an error path of
\* network_cyclic_process or netif_output, none is given away twice.
FramesConserved ==
    /\ Len(Places) = Len(Rom)
    /\ {Places[i] : i \in 1..Len(Places)} = Buffers

\* The program never reads the EMPTY FIFO when there is nothing in it, although
\* the fill level it tested may have changed (drv_eth_xc_get_empty_packet).
NoPopOnEmpty == pc = "out_pop" => empty # <<>>

\* lwIP is given frames that arrived, unchanged, in their order and at most
\* once, and the port sends what netif_output queued, complete and in order,
\* however the XC unit works beside the copies.
FramesIntact ==
    [][/\ got' # got => got' > got /\ got' <= arrived
       /\ (tx # None /\ tx' = None) => wire' = wire + 1 /\ wire' <= sent]_vars

\* When the link stays up, every frame in IND_LO is fetched by
\* network_cyclic_process, also after the link was down.
Drained == <>[]phy => <>[](ind = <<>>)
=============================================================================
