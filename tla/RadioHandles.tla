---------------------------- MODULE RadioHandles ----------------------------
(***************************************************************************)
(* The descriptors of one process that uses the radio: WfbTx (tx.rs) and   *)
(* WfbRx (rx.rs) behind the C ABI (ffi.rs) and the handle objects of       *)
(* api.py, opened, closed for every channel switch and reopened by the     *)
(* programs' open_radio, switch_channel and close_radio.                   *)
(*                                                                         *)
(* A descriptor is a number in the process's table, and close() closes     *)
(* whatever the number stands for at that moment.  The receiver's Drop     *)
(* closes its number, and the capture it holds closes the same number      *)
(* again when it is dropped right afterwards: what counts is whether       *)
(* anybody else in the process can be given the number in between.         *)
(***************************************************************************)
EXTENDS Naturals

CONSTANTS
    Programs,   \* the programs to consider, as records of Program
    Files,      \* what else the process opens: sockets, pipes, files
    Numbers,    \* the descriptor numbers the process may have
    Free,       \* stands for "the number is not in use"
    NoFd        \* stands for "no descriptor is held"

(* tx, rx: the handles the program opens.  hops: it follows a channel       *)
(* schedule.  threads: other threads open and close Files at any time (the  *)
(* bindings release the interpreter lock during a call); a single-threaded  *)
(* program does so only between its own calls.                              *)
Program == [tx : BOOLEAN, rx : BOOLEAN, hops : BOOLEAN, threads : BOOLEAN]

ASSUME ConfigAssumption ==
    /\ Programs \subseteq Program
    /\ \A p \in Programs : p.tx \/ p.rx
    /\ Numbers \subseteq Nat
    /\ NoFd \notin Numbers
    /\ Free \notin Files
    /\ {"tx", "rx"} \cap (Files \union {Free}) = {}

VARIABLES
    program,  \* the program that runs
    table,    \* table[n]: what descriptor n stands for
    txfd,     \* the number in WfbTx.fd
    rxfd,     \* the number in WfbRx.fd, which the capture has as well
    filefd,   \* filefd[f]: the number the owner of f has
    at,       \* where the radio's thread is
    then,     \* what follows the closing of the radio: "hop" or "ended"
    robbed    \* history: what was closed by somebody who did not own it

radioVars == <<program, table, txfd, rxfd, filefd, at, then, robbed>>

(* The number the kernel hands out: the lowest one free. *)
Lowest(n) == table[n] = Free /\ \A m \in Numbers : table[m] = Free => n <= m

(* close(n) by `who`: whoever has the number now loses it. *)
Close(n, who) ==
    /\ table' = [table EXCEPT ![n] = Free]
    /\ robbed' = robbed \union ({table[n]} \ {who, Free})

(* The first step of open_radio: the transmitter, where there is one. *)
Opening(p) == IF p.tx THEN "openTx" ELSE "openRx"

(* What follows the opening of the transmitter. *)
AfterTx(p) == IF p.rx THEN "openRx" ELSE "up"

RadioInit ==
    /\ program \in Programs
    /\ table = [n \in Numbers |-> Free]
    /\ txfd = NoFd
    /\ rxfd = NoFd
    /\ filefd = [f \in Files |-> NoFd]
    /\ at = Opening(program)
    /\ then = "ended"
    /\ robbed = {}

(* An exception or an interrupt ends the program by way of its finally       *)
(* clause, close_radio; in open_radio the except clause does the same first. *)
EndProgram ==
    /\ at' = "closeRx"
    /\ then' = "ended"

-----------------------------------------------------------------------------
(* Opening. *)

(* socket(PF_PACKET): the number is held by the function, not by a WfbTx. *)
TxSocket ==
    /\ at = "openTx"
    /\ \E n \in Numbers :
          /\ Lowest(n)
          /\ table' = [table EXCEPT ![n] = "tx"]
          /\ txfd' = n
    /\ at' = "txSetup"
    /\ UNCHANGED <<program, rxfd, filefd, then, robbed>>

(* A refused configuration, or no descriptor left: nothing was opened. *)
TxSocketFails ==
    /\ at = "openTx"
    /\ EndProgram
    /\ UNCHANGED <<program, table, txfd, rxfd, filefd, robbed>>

(* A set-up that gives up without closing the socket. *)
TxSetupFailsLeaking ==
    /\ at = "txSetup"
    /\ txfd' = NoFd
    /\ EndProgram
    /\ UNCHANGED <<program, table, rxfd, filefd, robbed>>

(* Interface name too long or unknown, or bind refused: the socket is       *)
(* closed; a bad rate is found with the WfbTx built, whose Drop closes it.  *)
TxSetupFails ==
    /\ at = "txSetup"
    /\ Close(txfd, "tx")
    /\ txfd' = NoFd
    /\ EndProgram
    /\ UNCHANGED <<program, rxfd, filefd>>

TxBound ==
    /\ at = "txSetup"
    /\ at' = AfterTx(program)
    /\ UNCHANGED <<program, table, txfd, rxfd, filefd, then, robbed>>

RxCapture ==
    /\ at = "openRx"
    /\ \E n \in Numbers :
          /\ Lowest(n)
          /\ table' = [table EXCEPT ![n] = "rx"]
          /\ rxfd' = n
    /\ at' = "rxSetup"
    /\ UNCHANGED <<program, txfd, filefd, then, robbed>>

(* No capture, or an interrupt between the two opens: open_radio closes the *)
(* transmitter again.                                                       *)
RxCaptureFails ==
    /\ at = "openRx"
    /\ EndProgram
    /\ UNCHANGED <<program, table, txfd, rxfd, filefd, robbed>>

(* setnonblock or the filter fails: there is no WfbRx yet, and the capture  *)
(* closes its descriptor, once.                                             *)
RxFilterFails ==
    /\ at = "rxSetup"
    /\ Close(rxfd, "rx")
    /\ rxfd' = NoFd
    /\ EndProgram
    /\ UNCHANGED <<program, txfd, filefd>>

RxFiltered ==
    /\ at = "rxSetup"
    /\ at' = "up"
    /\ UNCHANGED <<program, table, txfd, rxfd, filefd, then, robbed>>

-----------------------------------------------------------------------------
(* Closing: the receiver first, then the transmitter. *)

(* switch_channel begins with close_radio. *)
BeginHop ==
    /\ at = "up"
    /\ program.hops
    /\ at' = "closeRx"
    /\ then' = "hop"
    /\ UNCHANGED <<program, table, txfd, rxfd, filefd, robbed>>

(* Interrupt, stop event or an exception of the loop. *)
Leave ==
    /\ at = "up"
    /\ EndProgram
    /\ UNCHANGED <<program, table, txfd, rxfd, filefd, robbed>>

NoRxToClose ==
    /\ at = "closeRx"
    /\ rxfd = NoFd
    /\ at' = "closeTx"
    /\ UNCHANGED <<program, table, txfd, rxfd, filefd, then, robbed>>

(* Drop of WfbRx: libc::close(self.fd). *)
CloseRxFd ==
    /\ at = "closeRx"
    /\ rxfd # NoFd
    /\ Close(rxfd, "rx")
    /\ at' = "closePcap"
    /\ UNCHANGED <<program, txfd, rxfd, filefd, then>>

(* Then its fields are dropped: pcap_close closes the same number.  Where   *)
(* the number is free this fails without effect.                            *)
ClosePcap ==
    /\ at = "closePcap"
    /\ Close(rxfd, "rx")
    /\ rxfd' = NoFd
    /\ at' = "closeTx"
    /\ UNCHANGED <<program, txfd, filefd, then>>

(* A close that leaves the number in the handle. *)
CloseTxKeeping ==
    /\ at = "closeTx"
    /\ IF txfd = NoFd THEN UNCHANGED <<table, robbed>> ELSE Close(txfd, "tx")
    /\ at' = then
    /\ UNCHANGED <<program, txfd, rxfd, filefd, then>>

(* wfb_tx_close drops the WfbTx: one close, and the handle is forgotten. *)
CloseTx ==
    /\ at = "closeTx"
    /\ IF txfd = NoFd THEN UNCHANGED <<table, robbed>> ELSE Close(txfd, "tx")
    /\ txfd' = NoFd
    /\ at' = then
    /\ UNCHANGED <<program, rxfd, filefd, then>>

-----------------------------------------------------------------------------
(* Between closing and opening: _set_channel. *)

ChannelSet ==
    /\ at = "hop"
    /\ at' = Opening(program)
    /\ then' = "ended"
    /\ UNCHANGED <<program, table, txfd, rxfd, filefd, robbed>>

(* ip or iw fails, or the settling is interrupted: close_radio runs again. *)
ChannelFails ==
    /\ at = "hop"
    /\ EndProgram
    /\ UNCHANGED <<program, table, txfd, rxfd, filefd, robbed>>

-----------------------------------------------------------------------------
(* The rest of the process. *)

(* When the rest of the process runs: at any time in other threads, else    *)
(* only while the radio's own thread is not inside an open or a close.      *)
OthersRun == program.threads \/ at \in {"up", "hop"}

FileOpens(f) ==
    /\ OthersRun
    /\ filefd[f] = NoFd
    /\ \E n \in Numbers :
          /\ Lowest(n)
          /\ table' = [table EXCEPT ![n] = f]
          /\ filefd' = [filefd EXCEPT ![f] = n]
    /\ UNCHANGED <<program, txfd, rxfd, at, then, robbed>>

(* Its owner does not know whether the number is still its own. *)
FileCloses(f) ==
    /\ OthersRun
    /\ filefd[f] # NoFd
    /\ Close(filefd[f], f)
    /\ filefd' = [filefd EXCEPT ![f] = NoFd]
    /\ UNCHANGED <<program, txfd, rxfd, at, then>>

Open == TxSocket \/ TxSocketFails \/ TxSetupFails \/ TxBound
        \/ RxCapture \/ RxCaptureFails \/ RxFilterFails \/ RxFiltered
CloseRadio == NoRxToClose \/ CloseRxFd \/ ClosePcap \/ CloseTx
Hop == BeginHop \/ ChannelSet \/ ChannelFails
Others == \E f \in Files : FileOpens(f) \/ FileCloses(f)

RadioNext == Open \/ CloseRadio \/ Hop \/ Leave \/ Others

RadioSpec == RadioInit /\ [][RadioNext]_radioVars

-----------------------------------------------------------------------------

RadioTypeOK ==
    /\ program \in Programs
    /\ table \in [Numbers -> Files \union {"tx", "rx", Free}]
    /\ txfd \in Numbers \union {NoFd}
    /\ rxfd \in Numbers \union {NoFd}
    /\ filefd \in [Files -> Numbers \union {NoFd}]
    /\ at \in {"openTx", "txSetup", "openRx", "rxSetup", "up",
              "closeRx", "closePcap", "closeTx", "hop", "ended"}
    /\ then \in {"hop", "ended"}
    /\ robbed \subseteq Files \union {"tx", "rx"}

(* Nothing is ever closed by somebody who does not own it, although the     *)
(* receiver's number is closed twice on every switch of the channel and on  *)
(* every way out (rx.rs:506-512).  "pcap::Capture will close itself." says  *)
(* the comment at rx.rs:508, and nothing else would have to.                *)
OnlyOwnClosed == robbed = {}

(* Open radios and descriptors agree: while the loop runs, every handle the *)
(* program uses stands for its own descriptor; a descriptor of the radio is *)
(* never out of reach of its handle; and when the channel is being switched *)
(* or the program has ended, whichever open failed half-way, the radio      *)
(* holds no descriptor any more (mesh_txrx.py:1597-1609, tx.rs:83-117).     *)
RadioAccounted ==
    /\ at = "up" => /\ program.tx <=> txfd # NoFd
                    /\ program.rx <=> rxfd # NoFd
    /\ at # "closePcap" /\ rxfd # NoFd => table[rxfd] = "rx"
    /\ txfd # NoFd => table[txfd] = "tx"
    /\ \A n \in Numbers : /\ table[n] = "tx" => txfd = n
                          /\ table[n] = "rx" => rxfd = n
    /\ at \in {"hop", "ended"} => txfd = NoFd /\ rxfd = NoFd

(* What both rest on: where each handle stands at each step of the code,    *)
(* that the owner of a file still has it, and that a number waiting for its *)
(* second close is free.                                                    *)
HandlesAtStep ==
    /\ at \in {"openTx", "txSetup"} => program.tx /\ rxfd = NoFd
    /\ at = "openTx" => txfd = NoFd
    /\ at = "txSetup" => txfd # NoFd
    /\ at \in {"openRx", "rxSetup"} => program.rx /\ (program.tx <=> txfd # NoFd)
    /\ at = "openRx" => rxfd = NoFd
    /\ at = "rxSetup" => rxfd # NoFd
    /\ at = "closePcap" => rxfd # NoFd /\ table[rxfd] = Free
    /\ at = "closeTx" => rxfd = NoFd

FilesHeld ==
    \A f \in Files :
        /\ filefd[f] # NoFd => table[filefd[f]] = f
        /\ \A n \in Numbers : table[n] = f => filefd[f] = n

RadioIndInv == RadioTypeOK /\ OnlyOwnClosed /\ RadioAccounted /\ HandlesAtStep /\ FilesHeld
=============================================================================
