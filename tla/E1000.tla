------------------------------- MODULE E1000 -------------------------------
(***************************************************************************)
(* The descriptor rings of the e1000 driver (src/net/e1000.rs) and the     *)
(* NIC that shares them: init_rings, poll_rx and send on the driver side,  *)
(* and on the NIC side the receive and transmit engines as the 8254x       *)
(* manual describes them.  The NIC owns the RX descriptors from RDH up to *)
(* RDT - 1 and the TX descriptors from TDH up to TDT - 1; it writes a     *)
(* received packet into RX[RDH], sets DD and advances RDH, drops a packet *)
(* when RDH = RDT, and sends TX[TDH], sets DD and advances TDH while       *)
(* TDH # TDT.  Each register or descriptor write is one step.             *)
(*                                                                         *)
(* A packet is named by its number on the wire (RX) or in the order send *)
(* was called (TX); 0 is the empty buffer init_rings leaves in a          *)
(* descriptor.  Lengths and bytes are left out: callers pass at most 1536 *)
(* bytes, so send's check against the 2048-byte buffer never fails.       *)
(***************************************************************************)
EXTENDS Naturals, Sequences, SequencesExt

CONSTANTS
  RingSize,   \* RX_RING_SIZE and TX_RING_SIZE (32 in the code)
  MaxRx,      \* bound: packets arriving from the wire
  MaxTx       \* bound: send calls

Idx == 0 .. RingSize - 1

VARIABLES
  rx,         \* RX_RING: per descriptor [pkt, dd]
  rdh, rdt,   \* RDH (advanced by the NIC) and RDT (written by poll_rx)
  tx,         \* TX_RING: per descriptor [pkt, dd]
  tdh, tdt,   \* TDH (advanced by the NIC) and TDT (written by send)
  arrived,    \* packets that reached the NIC from the wire
  received,   \* history: the packets the NIC stored, in order
  delivered,  \* history: the packets poll_rx handed to its callback
  poll,       \* poll_rx in progress: its locals, or pc "idle"
  lastStart,  \* packets received when the last finished poll began
  send,       \* send in progress: pc and next
  sent,       \* number of send calls begun
  wire        \* history: the descriptors the NIC transmitted

vars == <<rx, rdh, rdt, tx, tdh, tdt, arrived, received, delivered, poll,
          lastStart, send, sent, wire>>

Next1(i) == (i + 1) % RingSize

(* init_rings, lines 68-98 (run by E1000::init, lines 31-63): every       *)
(* descriptor points at its buffer with status 0; RDH 0, RDT 31, TDH and *)
(* TDT 0; receiver and transmitter on.                                    *)
Init ==
  /\ rx = [i \in Idx |-> [pkt |-> 0, dd |-> FALSE]]
  /\ tx = [i \in Idx |-> [pkt |-> 0, dd |-> FALSE]]
  /\ rdh = 0 /\ rdt = RingSize - 1 /\ tdh = 0 /\ tdt = 0
  /\ arrived = 0 /\ received = <<>> /\ delivered = <<>>
  /\ poll = [pc |-> "idle"] /\ lastStart = 0
  /\ send = [pc |-> "idle"] /\ sent = 0 /\ wire = <<>>

----------------------------------------------------------------------------
(* NIC: the next packet from the wire is stored at RDH, or dropped when   *)
(* the ring has no free descriptor.                                       *)
NicReceive ==
  /\ arrived < MaxRx
  /\ arrived' = arrived + 1
  /\ IF rdh # rdt
       THEN /\ rx' = [rx EXCEPT ![rdh] = [pkt |-> arrived + 1, dd |-> TRUE]]
            /\ rdh' = Next1(rdh)
            /\ received' = Append(received, arrived + 1)
       ELSE UNCHANGED <<rx, rdh, received>>
  /\ UNCHANGED <<rdt, tx, tdh, tdt, delivered, poll, lastStart, send, sent, wire>>

(* NIC: the descriptor at TDH goes out on the wire. *)
NicTransmit ==
  /\ tdh # tdt
  /\ wire' = Append(wire, tx[tdh].pkt)
  /\ tx' = [tx EXCEPT ![tdh].dd = TRUE]
  /\ tdh' = Next1(tdh)
  /\ UNCHANGED <<rx, rdh, rdt, tdt, arrived, received, delivered, poll,
                 lastStart, send, sent>>

----------------------------------------------------------------------------
(* Mutant: the scan starts at RDT itself. *)
FirstRxAtTail(t) == t

(* Line 104: the first descriptor after RDT. *)
FirstRx(t) == Next1(t)

(* poll_rx, lines 102-104: read RDH and RDT once. *)
PollStart ==
  /\ poll.pc = "idle"
  /\ poll' = [pc |-> "loop", rdh |-> rdh, rdt |-> rdt, idx |-> FirstRx(rdt),
              start |-> Len(received)]
  /\ UNCHANGED <<rx, rdh, rdt, tx, tdh, tdt, arrived, received, delivered,
                 lastStart, send, sent, wire>>

(* Lines 105-113, one iteration: stop at the RDH read or at a descriptor *)
(* without DD; otherwise hand its buffer to f, clear its status and move *)
(* on.                                                                    *)
PollStep ==
  /\ poll.pc = "loop"
  /\ IF poll.idx = poll.rdh \/ ~rx[poll.idx].dd
       THEN /\ poll' = [poll EXCEPT !.pc = "tail"]
            /\ UNCHANGED <<rx, delivered>>
       ELSE /\ delivered' = Append(delivered, rx[poll.idx].pkt)
            /\ rx' = [rx EXCEPT ![poll.idx].dd = FALSE]
            /\ poll' = [poll EXCEPT !.rdt = poll.idx, !.idx = Next1(poll.idx)]
  /\ UNCHANGED <<rdh, rdt, tx, tdh, tdt, arrived, received, lastStart, send,
                 sent, wire>>

(* Line 114: RDT = the last descriptor handed to f. *)
PollEnd ==
  /\ poll.pc = "tail"
  /\ rdt' = poll.rdt
  /\ lastStart' = poll.start
  /\ poll' = [pc |-> "idle"]
  /\ UNCHANGED <<rx, rdh, tx, tdh, tdt, arrived, received, delivered, send,
                 sent, wire>>

(* send, lines 120-128: read TDT, fill the descriptor after it. *)
SendFill ==
  /\ send.pc = "idle" /\ sent < MaxTx
  /\ LET next == Next1(tdt)
     IN /\ tx' = [tx EXCEPT ![next] = [pkt |-> sent + 1, dd |-> FALSE]]
        /\ send' = [pc |-> "tail", next |-> next]
  /\ sent' = sent + 1
  /\ UNCHANGED <<rx, rdh, rdt, tdh, tdt, arrived, received, delivered, poll,
                 lastStart, wire>>

(* send, line 129: TDT = next. *)
SendTail ==
  /\ send.pc = "tail"
  /\ tdt' = send.next
  /\ send' = [pc |-> "idle"]
  /\ UNCHANGED <<rx, rdh, rdt, tx, tdh, arrived, received, delivered, poll,
                 lastStart, sent, wire>>

(* Nothing is left to do: the wire and the callers are done. *)
Quiet ==
  /\ arrived = MaxRx /\ sent = MaxTx
  /\ poll.pc = "idle" /\ send.pc = "idle"
  /\ UNCHANGED vars

Next ==
  \/ NicReceive \/ NicTransmit
  \/ PollStart \/ PollStep \/ PollEnd
  \/ SendFill \/ SendTail
  \/ Quiet

Spec == Init /\ [][Next]_vars

----------------------------------------------------------------------------
(* Whatever the NIC does between poll_rx's reads and writes of the ring,  *)
(* poll_rx hands each stored packet to its callback once, in wire order, *)
(* and never a stale or empty buffer; and a finished poll has handed over *)
(* every packet the NIC had stored before the poll began, also after the *)
(* ring has wrapped and after the NIC found it full.                     *)
RxDeliveredOnceInOrder ==
  /\ IsPrefix(delivered, received)
  /\ poll.pc = "idle" => Len(delivered) >= lastStart

=============================================================================
