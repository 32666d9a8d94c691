--------------------------- MODULE GrantRefinement ---------------------------
(***************************************************************************)
(* The grant store implements GrantAuthority.  A grant's authority is read *)
(* off its status; its limit counts from the approval, which sets          *)
(* expiresAt; a reserved or retained use is held, a committed one spent.   *)
(***************************************************************************)
EXTENDS GrantStore

AuthorityOf(grant) ==
  CASE grant.status = "absent"  -> "none"
    [] grant.status = "pending" -> "asked"
    [] grant.status = "active"  -> "granted"
    [] OTHER                    -> "closed"

UseOf(record) ==
  CASE record.state \in {"absent", "released"}   -> "free"
    [] record.state \in {"reserved", "retained"} -> "held"
    [] record.state = "committed"                -> "spent"

Authority == INSTANCE GrantAuthority WITH
  Grants    <- GrantIDs,
  Uses      <- UseIDs,
  Nobody    <- 0,
  authority <- [g \in GrantIDs |-> AuthorityOf(grants[g])],
  ceiling   <- [g \in GrantIDs |-> grants[g].requestedMaxUses],
  limit     <- [g \in GrantIDs |-> IF grants[g].expiresAt > 0
                                   THEN grants[g].maxUses ELSE 0],
  use       <- [u \in UseIDs |-> UseOf(uses[u])],
  holder    <- [u \in UseIDs |-> uses[u].grant]

\* Every behaviour of the store is one of the promised authority: a grant is
\* granted once, within what was asked for, and closed for ever; uses are
\* charged from the moment they are held until they are free again, and never
\* beyond the limit, although expiry, retention, settlement after the end of
\* a grant and racing decisions come in between.
ImplementsAuthority == Authority!AuthoritySpec
===============================================================================
