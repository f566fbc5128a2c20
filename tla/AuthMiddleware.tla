--------------------------- MODULE AuthMiddleware ---------------------------
(***************************************************************************)
(* Service.Middleware (server/auth/middleware.go): which requests reach    *)
(* the next handler, and with which token.  A path is a sequence of words, *)
(* as in Routes.                                                           *)
(*                                                                         *)
(* Header is what the Authorization header holds: nothing, something else  *)
(* than a bearer token, or one.  A token source may fail or return a blank *)
(* token.                                                                  *)
(***************************************************************************)
EXTENDS Naturals, Sequences

Header == {"none", "other", "bearer"}
SourceResult == {"token", "blank", "error"}
Token == {"none", "bearer", "acquired"}

WellKnown == { << <<"/.well-known/oauth-protected-resource">> >>,
               << <<"/.well-known/agent-card.json">> >> }

\* excludePrefix <<>> stands for the empty ExcludePrefix; access and id say
\* whether AccessSource and IDSource are set.
PolicyOf(prefixes) == [excludePrefix : prefixes, useIDToken : BOOLEAN,
                       access : BOOLEAN, id : BOOLEAN]

HasPrefix(path, prefix) ==
  /\ Len(prefix) <= Len(path)
  /\ \A i \in 1..Len(prefix) : path[i] = prefix[i]

\* Faulty: a policy with a prefix excludes every path.
ExcludedWhenSet(policy, path) == policy.excludePrefix # <<>>

Excluded(policy, path) ==
  policy.excludePrefix # <<>> /\ HasPrefix(path, policy.excludePrefix)

Bypasses(policy, verb, path) ==
  verb = "OPTIONS" \/ path \in WellKnown \/ Excluded(policy, path)

hasBearer(header) == header = "bearer"

\* What the middleware has from its sources, when the one it asks returns
\* result: nothing when UseIDToken is off and only IDSource is set.
Acquired(policy, result) ==
  IF policy.access \/ (policy.useIDToken /\ policy.id) THEN result ELSE "blank"

Pass(token) == [served |-> TRUE, token |-> token]
Unauthorized == [served |-> FALSE, token |-> "none"]

\* Faulty: a source that answers without an error is enough.
MiddlewareTrustsSource(policy, verb, path, header, result) ==
  IF Bypasses(policy, verb, path) THEN Pass("none")
  ELSE IF hasBearer(header) THEN Pass("bearer")
  ELSE CASE Acquired(policy, result) = "token" -> Pass("acquired")
         [] Acquired(policy, result) = "blank" -> Pass("none")
         [] OTHER -> Unauthorized

\* The token is the one in the context and in the header that is passed on.
Middleware(policy, verb, path, header, result) ==
  IF Bypasses(policy, verb, path) THEN Pass("none")
  ELSE IF hasBearer(header) THEN Pass("bearer")
  ELSE IF Acquired(policy, result) = "token" THEN Pass("acquired")
  ELSE Unauthorized
=============================================================================
