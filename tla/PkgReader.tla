----------------------------- MODULE PkgReader -----------------------------
(***************************************************************************)
(* server_read_handle (decoder/main.c) on one accepted connection: the      *)
(* do/while that extends the connection's readBuf, receives at most ReadLen *)
(* bytes at its tail, and hands every complete package at its head to       *)
(* pkgProcess before the next receive.  The socket is a byte stream: recv() *)
(* may cut it anywhere.                                                     *)
(*                                                                          *)
(* Byte number k of the stream of this connection is the value k, so what   *)
(* the buffer holds says where it comes from.                               *)
(***************************************************************************)
EXTENDS ByteBuf

CONSTANTS PkgLen,          \* sizeof(struct rtpPkg_st), 1616
          ReadLen,         \* 4096 in server_read_handle
          MaxBytes         \* bound: bytes received on one connection

\* 32 KiB of readBuf against 1615 left over bytes, 4096 new ones, and the
\* last byte, which must stay free.
ASSUME ReaderAssumption == /\ PkgLen \in Nat \ {0}
                           /\ ReadLen \in Nat \ {0}
                           /\ MaxBytes \in Nat
                           /\ PkgLen + ReadLen <= Capacity

VARIABLES buf,             \* c->readBuf
          got,             \* bytes received on this connection
          pkgs,            \* packages handed to pkgProcess
          pc               \* "recv", "loop" (the inner while), "closed"

vars == <<buf, got, pkgs, pc>>

Init == buf = BufInit /\ got = 0 /\ pkgs = 0 /\ pc = "recv"

\* buf_extend(buf, 4096); r = recv(c, buf->tail, 4096) > 0.
Recv(r) == /\ pc = "recv"
           /\ got + r <= MaxBytes
           /\ buf' = Written(BufExtend(buf, ReadLen), r, got)
           /\ got' = got + r
           /\ pc' = "loop"
           /\ UNCHANGED pkgs

\* recv() < 0: nothing to read yet, but the buffer was extended already.
RecvNothing == /\ pc = "recv"
               /\ buf' = BufExtend(buf, ReadLen)
               /\ UNCHANGED <<got, pkgs, pc>>

\* recv() = 0: close_conn puts the connection, buffer and all, in the cache.
PeerClosed == /\ pc = "recv"
              /\ buf' = BufExtend(buf, ReadLen)
              /\ pc' = "closed"
              /\ UNCHANGED <<got, pkgs>>

\* A connection taken from the cache keeps the last peer's bytes.
AcceptDirty == /\ pc = "closed"
               /\ got' = 0
               /\ pkgs' = 0
               /\ pc' = "recv"
               /\ UNCHANGED buf

\* get_conn takes it out again for the next peer: buf_init(c->readBuf).
Accept == /\ pc = "closed"
          /\ buf' = BufInit
          /\ got' = 0
          /\ pkgs' = 0
          /\ pc' = "recv"

\* while (buf->size > 0): a package that is not all there is processed too.
ProcessPartial == /\ pc = "loop"
                  /\ buf.size > 0
                  /\ pkgs' = pkgs + 1
                  /\ buf' = BufConsume(buf, PkgLen)
                  /\ UNCHANGED <<got, pc>>

\* One turn of while (buf->size >= sizeof(struct rtpPkg_st)).
ProcessPkg == /\ pc = "loop"
              /\ buf.size >= PkgLen
              /\ pkgs' = pkgs + 1
              /\ buf' = BufConsume(buf, PkgLen)
              /\ UNCHANGED <<got, pc>>

LoopDone == /\ pc = "loop"
            /\ buf.size < PkgLen
            /\ pc' = "recv"
            /\ UNCHANGED <<buf, got, pkgs>>

Next == \/ \E r \in 1 .. ReadLen : Recv(r)
        \/ RecvNothing
        \/ PeerClosed
        \/ Accept
        \/ ProcessPkg
        \/ LoopDone

Spec == Init /\ [][Next]_vars
-----------------------------------------------------------------------------
TypeOK == /\ buf \in Buffers
          /\ got \in Nat
          /\ pkgs \in Nat
          /\ pc \in {"recv", "loop", "closed"}

\* head, tail and size of the read buffer agree and stay inside the heap,
\* whatever the sizes in which recv() cuts the stream.
BufferOK == BufOK(buf)

\* recv() is always offered ReadLen bytes that lie inside the heap: what
\* buf_extend leaves has the room that server_read_handle then writes to.
ReadFits == pc = "recv" => BufExtend(buf, ReadLen).tail + ReadLen <= Capacity

\* The buffer holds exactly the bytes of the stream that were received and
\* not yet processed, in order: no compaction, reset, consume or reuse of a
\* cached connection ever loses, repeats or shifts a byte, so every package
\* that pkgProcess gets starts at a package boundary.
Window == pc # "closed" =>
            /\ buf.size = got - pkgs * PkgLen
            /\ \A k \in 0 .. buf.size - 1 :
                  buf.heap[buf.head + k] = pkgs * PkgLen + k

\* Between two receives less than one package is waiting.
Drained == pc = "recv" => buf.size < PkgLen

\* The inductive invariant behind them: it is Window and the size bound at
\* "recv" that make the room for the next receive.
Inv == TypeOK /\ BufferOK /\ Drained /\ Window

\* server_read_handle implements the package stream of PkgStream.
Stream == INSTANCE PkgStream
StreamSpec == Stream!Spec
=============================================================================
