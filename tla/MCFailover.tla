------------------------------ MODULE MCFailover ------------------------------
(* Small instances of Failover for TLC. *)
EXTENDS Failover, TLC

CONSTANTS r1, r2, k1, k2, p1, p2

\* Two members on two providers: an API key and a Command Code account.
MCProviderOf == k1 :> p1 @@ k2 :> p2
MCKind == p1 :> "passthrough" @@ p2 :> "commandcode"

\* A pool of both members, and a pool without members.
MCSelections == {<<k1, k2>>, <<>>}

\* One member, for the runs in which two requests share it.
MCOneProviderOf == k1 :> p1
MCCodex == p1 :> "codex"
MCCommandCode == p1 :> "commandcode"
MCOneSelection == {<<k1>>}

=============================================================================
