---------------------------- MODULE MCOgaPermits ----------------------------
(* Values for model checking OgaPermits. *)
EXTENDS OgaPermits, TLC

CONSTANTS a1, a2, o1, o2

Says(a, what, ref) == [agency |-> a, decision |-> what, ref |-> ref]

\* A callback that settles a permit and one that reopens it.
RequestPayloads == {Says(a1, "approved", TRUE), Says(a1, "more_info_required", FALSE)}

\* Both agencies approve, or one of them turns round.
CallbackPayloads == {Says(a1, "approved", TRUE), Says(a2, "conditional", FALSE),
                     Says(a2, "rejected", FALSE)}

AllEntries == EntryPoints
CallbackEntries == {"approve", "reject"}

OfficerSymmetry == Permutations(Officers)
=============================================================================
