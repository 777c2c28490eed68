----------------------------- MODULE PkgStream -----------------------------
(***************************************************************************)
(* What the reader of the decoder's socket promises: the packages of one    *)
(* connection reach pkgProcess whole, each once, in the order of the        *)
(* stream, and none before all of its bytes came.                           *)
(***************************************************************************)
EXTENDS Integers

CONSTANTS PkgLen,          \* sizeof(struct rtpPkg_st)
          ReadLen          \* what one recv() asks for

VARIABLES got,             \* bytes received on this connection
          pkgs             \* packages handed to pkgProcess

TypeOK == got \in Nat /\ pkgs \in Nat

Init == got = 0 /\ pkgs = 0

Receive == /\ \E r \in 1 .. ReadLen : got' = got + r
           /\ UNCHANGED pkgs

Deliver == /\ (pkgs + 1) * PkgLen <= got
           /\ pkgs' = pkgs + 1
           /\ UNCHANGED got

Reconnect == got' = 0 /\ pkgs' = 0

Next == Receive \/ Deliver \/ Reconnect

Spec == Init /\ [][Next]_<<got, pkgs>>
=============================================================================
