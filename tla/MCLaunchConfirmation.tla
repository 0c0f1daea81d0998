------------------------- MODULE MCLaunchConfirmation -------------------------
(* LaunchConfirmation on an instance for TLC; the requests are alike.        *)
EXTENDS LaunchConfirmation, TLC

Symmetry == Permutations(Command) \union Permutations(Handler) \union Permutations(Env)
================================================================================
