----------------------------- MODULE MCRelocation -----------------------------
(* Names that collide after suffixing: x then "0" is the symbol named x0.   *)
EXTENDS Relocation, TLC

MCLocalNames == {"x", "x0", "x00", "x1", "y"}
MCSuffixed == [p \in MCLocalNames \X (0..N) |-> p[1] \o ToString(p[2])]
MCNames == MCLocalNames \cup {MCSuffixed[p] : p \in DOMAIN MCSuffixed}
=============================================================================
