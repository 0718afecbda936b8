-------------------------------- MODULE Lint --------------------------------
(***************************************************************************)
(* The linter (lint.py): what is wrong with a registry of contracts by its *)
(* names, kinds and effects, with the grants of the proxied source, and    *)
(* with the policy.  A diagnostic is a record; its parameter is a set of   *)
(* at most one name.                                                       *)
(***************************************************************************)
EXTENDS Contracts, Verdicts

CONSTANTS
    RegisteredKinds,    (* KIND_REGISTRY                                   *)
    Server,             (* the proxied source: its label and its grants    *)
    Policy,             (* what to do about each kind of finding           *)
    Composing           (* compose_paths or compose_urls is on             *)

ASSUME LintAssumption ==
    /\ RegisteredKinds \subseteq STRING
    /\ Server.principal \in BOOLEAN
    /\ Server.kinds \subseteq STRING
    /\ \A g \in Server.grants : g.pattern \in Seq(STRING) /\ g.kinds \subseteq STRING
    /\ Policy \in PolicyType
    /\ Composing \in BOOLEAN

Diagnostic(severity, code, subject, parameter) ==
    [severity |-> severity, code |-> code, subject |-> subject, parameter |-> parameter]

When(condition, diagnostic) == IF condition THEN {diagnostic} ELSE {}

PseudoKinds == {"unclassified", "referenced"}

IsKnownKind(kind) == kind \in RegisteredKinds \cup PseudoKinds

-----------------------------------------------------------------------------
(* Names.  The linter leaves fileId in one piece.                          *)

AuthorityTokens ==
    Single({ "to", "recipient", "recipients", "dest", "destination", "target", "targets",
             "url", "uri", "link", "endpoint", "webhook", "callback", "host", "hostname",
             "domain", "server", "address", "addr", "path", "file", "filepath", "filename",
             "dir", "directory", "account", "iban", "card", "wallet", "phone", "msisdn",
             "command", "cmd", "exec", "script", "redirect", "bucket", "resource", "arn",
             "channel", "room", "mailbox", "cc", "bcc", "from", "sender" })
        \cup {<<"chat", "id">>, <<"query", "url">>, <<"return", "url">>, <<"next", "url">>,
              <<"key", "path">>, <<"reply", "to">>}

AmountTokens == Single(AmountWords \cup {"balance"}) \cup {<<"limit", "amount">>}

PresentationTokens ==
    Single({ "timezone", "tz", "locale", "language", "lang", "encoding", "charset",
             "format", "unit", "units", "precision", "granularity" })

Mentions(n, table) == n.pieces \cap table # {}

ReadsAsAuthorityExactly(n) ==       (* A slip: only a name that is an entry itself. *)
    n.parts \in AuthorityTokens

ReadsAsAuthority(n) == ~Mentions(n, PresentationTokens) /\ Mentions(n, AuthorityTokens)

ReadsAsAmount(n) == Mentions(n, AmountTokens)

-----------------------------------------------------------------------------
(* One contract.                                                           *)

LintParameter(tool, n, p) ==
    LET found(severity, code) == Diagnostic(severity, code, tool, {n})
        open == p.role # "authority"
    IN  When(open /\ ReadsAsAuthority(n), found("error", "authority-name-downgraded"))
          \cup When(open /\ ReadsAsAmount(n), found("warning", "amount-not-authority"))
          \cup When(open /\ p.kinds # {}, found("warning", "kinds-on-non-authority"))
          \cup When(\E k \in p.kinds : ~IsKnownKind(k), found("error", "unknown-operand-kind"))
          \cup When(~open /\ p.kinds = {}, found("note", "authority-without-kinds"))
          \cup When(p.role = "advisory" /\ (ReadsAsAuthority(n) \/ ReadsAsAmount(n)),
                    found("error", "advisory-authority-name"))

AuthorityParameters(c) == { n \in DOMAIN c.params : c.params[n].role = "authority" }

(* Nothing about a call is attributed: what that means depends on what the *)
(* tool does.                                                              *)
SeverityOfNoAuthority(c) ==
    IF c.effects \cap Consequential # {} THEN "error"
    ELSE IF c.effects \subseteq {"read"} THEN "note"
    ELSE "warning"

LintContract(tool, c) ==
    LET found(severity, code) == Diagnostic(severity, code, tool, {})
        unchecked == AuthorityParameters(c) = {}
    IN  When(c.effects = {}, found("error", "no-effects-declared"))
          \cup When(c.default # "authority", found("error", "permissive-default-role"))
          \cup When(DOMAIN c.params # {} /\ unchecked,
                    found(SeverityOfNoAuthority(c), "no-authority-parameter"))
          \cup When(CanEgress(c) /\ unchecked, found("error", "unconstrained-egress"))
          \cup UNION { LintParameter(tool, n, c.params[n]) : n \in DOMAIN c.params }

-----------------------------------------------------------------------------
(* The source against the contracts, and the policy against itself.        *)

AuthoritySpecs(registry) ==
    UNION { { registry[t].params[n] : n \in AuthorityParameters(registry[t]) }
            : t \in DOMAIN registry }

Consumed(registry) == UNION { p.kinds : p \in AuthoritySpecs(registry) }

Collections(registry) == { p.collection : p \in AuthoritySpecs(registry) } \ {<<>>}

(* No parameter has a collection that the grant covers, or is covered by.  *)
IsInert(g, registry) ==
    /\ "referenced" \in g.kinds
    /\ \A c \in Collections(registry) : ~PathCovers(g.pattern, c) /\ ~PathCovers(c, g.pattern)

MatchesEverything(pattern) == \A i \in DOMAIN pattern : pattern[i] = "**"

LintGrant(g, registry) ==
    LET found(code) == Diagnostic("warning", code, "<source>", {})
    IN  When(IsInert(g, registry), found("inert-reference-grant"))
          \cup When("unclassified" \in g.kinds /\ MatchesEverything(g.pattern),
                    found("blanket-unclassified-grant"))

LintKind(kind, registry) ==
    IF ~IsKnownKind(kind)
    THEN {Diagnostic("error", "unknown-operand-kind", "<source>", {})}
    ELSE When(kind \notin Consumed(registry),
              Diagnostic("note", "unused-source-grant", "<source>", {}))

LintSources(registry) ==
    LET found(code) == Diagnostic("warning", code, "<source>", {})
    IN  When(Server.principal, found("source-trusted-as-principal"))
          \cup When("unclassified" \in Server.kinds, found("blanket-unclassified-grant"))
          \cup UNION { LintGrant(g, registry) : g \in Server.grants }
          \cup UNION { LintKind(kind, registry) : kind \in Server.kinds }

LintPolicy(registry) ==
    When(/\ Composing
         /\ \E t \in DOMAIN registry : CanEgress(registry[t])
         /\ Policy["confidential_egress"] = "allow",
         Diagnostic("warning", "composition-without-egress-guard", "<policy>", {}))

LintRegistry(registry) ==
    When(DOMAIN registry = {}, Diagnostic("error", "empty-registry", "<registry>", {}))
      \cup UNION { LintContract(t, registry[t]) : t \in DOMAIN registry }
      \cup LintSources(registry)
      \cup LintPolicy(registry)
=============================================================================
