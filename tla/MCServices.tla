----------------------------- MODULE MCServices -----------------------------
(***************************************************************************)
(* Small instances of the services behind the commands and the website.    *)
(* They share no state, so a behaviour is about one of them: "subject" is  *)
(* chosen at first, the others stay as they are at first, and the states   *)
(* are the sum and not the product of theirs.                              *)
(***************************************************************************)
EXTENDS Clans, Social, Accounts, Standing, Pools, Visibility

CONSTANTS ann, bob, cho, nobody,    \* users, and a viewer without a cookie
          name1, name2,             \* of clans, users and pools
          red, blue,                \* tags of clans
          pass1, pass2,             \* passwords
          kr, jp,                   \* countries
          k1, k2                    \* what is handled at once

VARIABLE subject

\* What starts in one of several states does so only as the subject.
Init ==
    /\ subject \in {"clans", "social", "accounts", "standing", "pools", "visibility"}
    /\ ClansInit /\ SocialInit /\ AccountsInit /\ StandingInit /\ PoolsInit /\ VisibilityInit
    /\ subject # "standing" => "verified" \in row.priv
    /\ subject # "visibility" => \A u \in People : userPriv[u] = "public"

Next ==
    /\ UNCHANGED subject
    /\ \/ /\ subject = "clans" /\ ClansNext
          /\ UNCHANGED <<socialVars, accountsVars, standingVars, poolsVars, visibilityVars>>
       \/ /\ subject = "social" /\ SocialNext
          /\ UNCHANGED <<clansVars, accountsVars, standingVars, poolsVars, visibilityVars>>
       \/ /\ subject = "accounts" /\ AccountsNext
          /\ UNCHANGED <<clansVars, socialVars, standingVars, poolsVars, visibilityVars>>
       \/ /\ subject = "standing" /\ StandingNext
          /\ UNCHANGED <<clansVars, socialVars, accountsVars, poolsVars, visibilityVars>>
       \/ /\ subject = "pools" /\ PoolsNext
          /\ UNCHANGED <<clansVars, socialVars, accountsVars, standingVars, visibilityVars>>
       \/ /\ subject = "visibility" /\ VisibilityNext
          /\ UNCHANGED <<clansVars, socialVars, accountsVars, standingVars, poolsVars>>

Spec == Init /\ [][Next]_<<subject, clansVars, socialVars, accountsVars, standingVars,
                           poolsVars, visibilityVars>>

\* Every service keeps the types of its state.
TypeOK ==
    CASE subject = "clans" -> ClansTypeOK
      [] subject = "social" -> SocialTypeOK
      [] subject = "accounts" -> AccountsTypeOK
      [] subject = "standing" -> StandingTypeOK
      [] subject = "pools" -> PoolsTypeOK
      [] subject = "visibility" -> VisibilityTypeOK
=============================================================================
