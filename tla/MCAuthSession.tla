---------------------------- MODULE MCAuthSession ----------------------------
(* A small instance of AuthSession for TLC. *)
EXTENDS AuthSession, TLC

\* A Google account, also as it was before its email was verified, and a Kakao
\* account without an email.
MCIdentities ==
    {[provider |-> "GOOGLE", providerUserId |-> "p1", email |-> "verified"],
     [provider |-> "GOOGLE", providerUserId |-> "p1", email |-> "unverified"],
     [provider |-> "KAKAO", providerUserId |-> "p1", email |-> None]}

\* One person only.
MCOneIdentity == {[provider |-> "GOOGLE", providerUserId |-> "p1", email |-> "verified"]}

Symmetry == Permutations(Users) \cup Permutations(SessionIds) \cup Permutations(Requests)
=============================================================================
