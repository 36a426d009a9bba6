------------------------------ MODULE MCJailRun ------------------------------
(* Instances of JailRun for TLC: what the options and the runs may be.      *)
EXTENDS JailRun, TLC

Option(thin, rm, binds, waits) ==
    [thin |-> thin, rm |-> rm, binds |-> binds, waits |-> waits]

PlainRun == Option(FALSE, FALSE, {}, {})

\* A run of an image that keeps its rootfs, and a thin one with --rm and a volume.
MixedOptions == {PlainRun, Option(TRUE, TRUE, {"base", "volume"}, {})}

PlainOption == {PlainRun}

\* Under zfs, gc lists no thin rootfs: it reclaims what these leave.
ReclaimOptions == {PlainRun, Option(FALSE, TRUE, {"volume"}, {"terminal", "network"})}

RmOption == {Option(FALSE, TRUE, {}, {})}

\* No definition of JailRun or of its properties tells one run from another.
RunSymmetry == Permutations(Runs)

=============================================================================
