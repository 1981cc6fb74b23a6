---------------------------- MODULE MCCredStore ----------------------------
(* CredStore for TLC: two deployments; of the first k1, k2 and t1 are tokens, *)
(* k2 is yet to be minted; t2 is a token of the second.                       *)
EXTENDS CredStore, TLC

CONSTANTS main, other, u1, u2, k1, k2, t1, t2

MCHome == (k1 :> u1) @@ (k2 :> u1) @@ (t1 :> u1) @@ (t2 :> u2)
MCPastable == {k1, t1, t2}

Line(verb, profile, api, token, class, env, login) ==
    [verb |-> verb, profile |-> profile, api |-> api, token |-> token,
     class |-> class, env |-> env, login |-> login]

MCLogins == {Line("login", main, u, t, None, None, FALSE) : u \in URLs, t \in MCPastable}
            \cup {Line("login", other, u2, t2, None, None, FALSE)}

MCLogouts == {Line("logout", main, None, None, c, None, FALSE) : c \in Classes \cup {None}}

\* A PAT in FERRY_TOKEN names the endpoint, or leaves it to the profile.
MCMints == {Line("mint", main, None, None, None, t, TRUE) : t \in {None, t1}}
           \cup {Line("mint", main, u1, None, None, t1, login) : login \in BOOLEAN}

MCReads == {Line("read", main, None, None, None, None, FALSE)}
           \cup {Line("read", main, u, None, None, t2, FALSE) : u \in URLs}

MCMoney == {Line(verb, main, None, None, None, t, FALSE) : verb \in {"create", "resume"}, t \in {None, k1}}
           \cup {Line("resume", main, u2, None, None, k1, FALSE)}

MCCommands == MCLogins \cup MCLogouts \cup MCMints \cup MCReads \cup MCMoney

MCSymmetry == Permutations(Procs)
=============================================================================
