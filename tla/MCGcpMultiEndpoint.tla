-------------------------- MODULE MCGcpMultiEndpoint --------------------------
(* Small instances of GcpMultiEndpoint for TLC. *)
EXTENDS GcpMultiEndpoint, TLC

CONSTANTS e1, e2, m1, m2

MCOption(d, lists) == [default |-> d, mes |-> lists]

\* Two MultiEndpoints, then one: the other default, with another endpoint.
MCSwapping == {MCOption(m1, m1 :> {e1} @@ m2 :> {e2}), MCOption(m2, m2 :> {e1})}

\* One MultiEndpoint, with one endpoint or the other.
MCSingle == {MCOption(m1, m1 :> {e1}), MCOption(m1, m1 :> {e2})}

MCSymmetry == Permutations(Conn)
===============================================================================
