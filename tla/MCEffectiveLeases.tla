-------------------------- MODULE MCEffectiveLeases --------------------------
(* Small instances of EffectiveLeases for TLC. *)
EXTENDS EffectiveLeases

CONSTANTS work, home

\* Two targets of one profile, one of another, in the order leaseTargets sorts them.
MCTargets == {1, 2, 3}
MCProfiles == {work, home}
MCProfileOf == [t \in MCTargets |-> IF t < 3 THEN home ELSE work]

\* Two pools the daemon may be restarted with. In a /30 the NAT and DNS addresses
\* leave two for targets, so three exhaust it.
MCPools == {[base |-> 0, size |-> 4], [base |-> 4, size |-> 4]}

=============================================================================
