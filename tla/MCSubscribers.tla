---------------------------- MODULE MCSubscribers ----------------------------
(***************************************************************************)
(* The subscribers' cache, for TLC: an owner who stays for the answers, and *)
(* whose calls overlap each other and the loads and may lose their answers. *)
(***************************************************************************)
EXTENDS SubscriberCache, TLC

ASSUME SubscribersAssumption == CacheAssumption

Symmetry == Permutations(Subscriber) \cup Permutations(Call)

-----------------------------------------------------------------------------
\* ListSettles is SubscriberCache's.

\* The badge of a detail page shows what the server has when no call or load of it is under
\* way, unless its calls overlapped or an answer was lost.
BadgeSettles == TypeOK /\ DetailSettles
=============================================================================
