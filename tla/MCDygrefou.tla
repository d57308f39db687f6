----------------------------- MODULE MCDygrefou -----------------------------
(***************************************************************************)
(* Instances of Dygrefou for TLC: which peers, with which keys, and which  *)
(* endpoints the NAT may give them.                                        *)
(***************************************************************************)
EXTENDS Dygrefou

At(h, q) == [host |-> h, port |-> q]

\* Two peers with keys.
TwoKeys == [p \in {"a", "b"} |-> IF p = "a" THEN 7 ELSE 8]

\* One NAT, whose ports both peers may get.
SharedPool == [p \in {"a", "b"} |-> {At(1, 1), At(1, 2), At(1, 3)}]

\* The same with fewer choices: one port is handed on between them.
HandedOn == [p \in {"a", "b"} |-> IF p = "a" THEN {At(1, 1), At(1, 2)}
                                             ELSE {At(1, 2), At(1, 3)}]

\* Two peers without a key, and one whose key is an address.
KeyIsAddress == [p \in {"a", "b", "c"} |-> IF p = "c" THEN 2 ELSE 0]

\* The peers without a key share address 1 until one moves to the address that is
\* the other's key.
MovingAddress == [p \in {"a", "b", "c"} |->
                    CASE p = "a" -> {At(1, 1), At(2, 1)}
                      [] p = "b" -> {At(1, 2)}
                      [] p = "c" -> {At(2, 2)}]
=============================================================================
