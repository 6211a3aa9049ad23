----------------------------- MODULE UrlIdentity -----------------------------
(***************************************************************************)
(* Which URLs identify a tool, and when two URLs identify the same one:    *)
(* normalize_url, which resolve_tool applies to the URLs of an intake and  *)
(* create_tool and add_identifier to the identifiers they are given.  A    *)
(* behaviour rewrites one URL, by a step that means the same or one that   *)
(* means another place.                                                    *)
(*                                                                         *)
(* A URL is what follows https://, split at its slashes: the host with     *)
(* what is glued to it, a port, and the segments of the path.  Abstracted: *)
(* the text of names, other schemes, and text that is refused as a whole   *)
(* (whitespace, backslashes, characters beyond ASCII).  Left out: control  *)
(* characters, and a percent sign or half a pair of brackets in a host.    *)
(***************************************************************************)
EXTENDS Naturals, Sequences, SequencesExt

CONSTANTS
  Hosts,      \* records [name, upper, glued]
  Ports,      \* what stands between host and path: "", ":443", ":443?", ...
  Segments,   \* records [stem, upper, gits, glued]
  MaxPath,    \* bound: segments of a path
  None

VARIABLES
  url,        \* the URL
  step        \* how it came from the one before: "respelled" or "moved"

vars == <<url, step>>

-----------------------------------------------------------------------------
\* upper: the text is written in upper case.  gits: how often .git ends it.
\* glued: a character that the text holds besides its name, "" for none.  A ? or #
\* ends the text, "?x" and "#x" say that more text follows; a final . ends a host,
\* an @ is in it, and "[" says that it is an IPv6 literal.
Url == [host: Hosts, port: Ports, path: UNION {[1 .. n -> Segments] : n \in 0 .. MaxPath}]

Lower(text) == [text EXCEPT !.upper = FALSE]
IsEmpty(segment) == segment.stem = "" /\ segment.gits = 0 /\ segment.glued = ""
IsDots(segment) == segment.stem \in {".", ".."} /\ segment.gits = 0 /\ segment.glued = ""
Bare == {"?", "#"}
Marks == Bare \cup {"?x", "#x"}
Glued(u) == {u.host.glued} \cup {u.path[i].glued : i \in DOMAIN u.path}
PathGlued(u) == {u.path[i].glued : i \in DOMAIN u.path}

\* Mutant: upper and lower case hosts are different hosts.
CasedHost(host) == host

\* The host of the value: lower case, with what is glued to it.
ValueHost(host) == Lower(host)

\* trim_end_matches('/').
Trimmed(path) == IF path # <<>> /\ IsEmpty(Last(path)) THEN Front(path) ELSE path

\* The repository: lower case, one .git less.
Repository(repo) == [Lower(repo) EXCEPT !.gits = IF @ > 0 THEN @ - 1 ELSE 0]

\* Mutant: a final dot of the host is let through, as DNS does.
AcceptableToDns(u) ==
  /\ "@" \notin Glued(u)
  /\ PathGlued(u) \cap (Marks \cup {"%"}) = {}
  /\ u.host.glued # "[" /\ u.port \in {"", ":443", ":+443"}
  /\ u.host.name # "" \/ u.host.glued # ""
  /\ \A i \in DOMAIN u.path : ~IsDots(u.path[i])
  /\ \A i \in 1 .. Len(u.path) - 1 : ~IsEmpty(u.path[i])

\* The tests up to the host: credentials, a ? or # in the path, a second colon,
\* the port (a sign parses), an empty host, the forms of path that are ambiguous,
\* a final dot.
Acceptable(u) ==
  /\ "@" \notin Glued(u)
  /\ PathGlued(u) \cap (Marks \cup {"%"}) = {}
  /\ u.host.glued # "[" /\ u.port \in {"", ":443", ":+443"}
  /\ u.host.name # "" \/ u.host.glued # ""
  /\ \A i \in DOMAIN u.path : ~IsDots(u.path[i])
  /\ \A i \in 1 .. Len(u.path) - 1 : ~IsEmpty(u.path[i])
  /\ u.host.glued # "."

IsGithub(host) == host.name = "github.com" /\ host.glued = ""

\* The value of a GitHub URL: owner and repository, exactly.
GithubValue(path) ==
  IF Len(path) # 2 \/ IsEmpty(Repository(path[2])) THEN None
  ELSE [namespace |-> "github", path |-> <<Lower(path[1]), Repository(path[2])>>]

\* The value of another URL.
GeneralValue(u) ==
  [namespace |-> "url", host |-> ValueHost(u.host), path |-> Trimmed(u.path)]

\* normalize_url: an identifier, or None.
Normalize(u) ==
  IF ~Acceptable(u) THEN None
  ELSE IF IsGithub(u.host) THEN GithubValue(Trimmed(u.path))
  ELSE GeneralValue(u)

Github == [name |-> "github.com", upper |-> FALSE, glued |-> ""]

\* canonical_url of an identifier: "https://" and the value.
CanonicalUrl(id) ==
  [host |-> IF id.namespace = "github" THEN Github ELSE id.host,
   port |-> "", path |-> id.path]

-----------------------------------------------------------------------------
(* normalize_url of scripts/validate_tool_identity.py, of which the code is *)
(* said to be the port.  urlsplit ends the host at the first of / ? #, and  *)
(* what is empty behind a ? or # counts as absent.                          *)

\* parts.query or parts.fragment: something stands behind the first ? or #.
HasQuery(u) ==
  \/ Glued(u) \cap {"?x", "#x"} # {}
  \/ u.host.glued \in Bare /\ (u.port # "" \/ u.path # <<>>)
  \/ u.port = ":443?" /\ u.path # <<>>
  \/ \E i \in 1 .. Len(u.path) - 1 : u.path[i].glued \in Bare

\* parts.path, when nothing stands behind a ? or # at its end.
PathOf(path) ==
  IF path # <<>> /\ Last(path).glued \in Bare
  THEN [path EXCEPT ![Len(path)].glued = ""]
  ELSE path

\* parts.hostname, of a host that is accepted: without the ? or # and the brackets.
HostOf(host) == [Lower(host) EXCEPT !.glued = ""]

\* What the tests refuse.
Refuses(u, path) ==
  \/ HasQuery(u)
  \/ u.host.name = "" \/ u.host.glued \in {"@", "."}
  \/ u.port \notin {"", ":", ":443", ":443?"}
  \/ "%" \in PathGlued(u)
  \/ \E i \in DOMAIN path : IsDots(path[i])
  \/ \E i \in 1 .. Len(path) - 1 : IsEmpty(path[i])

\* The value: of a path without the final slash.
ReferenceValue(host, path) ==
  LET named == {i \in DOMAIN path : ~IsEmpty(path[i])}
      kept == SubSeq(path, 1, Max({0} \cup named))
      repo == Lower(kept[2])
      name == IF repo.gits = 0 THEN repo ELSE [repo EXCEPT !.gits = @ - 1]
  IN  IF host # Github THEN [namespace |-> "url", host |-> host, path |-> kept]
      ELSE IF Len(kept) # 2 THEN None
      ELSE IF IsEmpty(name) THEN None
      ELSE [namespace |-> "github", path |-> <<Lower(kept[1]), name>>]

\* The function.
ReferenceNormalize(u) ==
  IF Refuses(u, PathOf(u.path)) THEN None
  ELSE ReferenceValue(HostOf(u.host), PathOf(u.path))

-----------------------------------------------------------------------------
(* Rewriting a URL.                                                        *)

\* The URL is one of the instance.
IsUrl(u) ==
  /\ u.host \in Hosts /\ u.port \in Ports
  /\ Len(u.path) <= MaxPath /\ Range(u.path) \subseteq Segments

Become(u, how) == IsUrl(u) /\ url' = u /\ step' = how

\* The same place: case of the host, the default port, a final slash, and on
\* GitHub the case of a name and a .git.
Respell ==
  \/ Become([url EXCEPT !.host.upper = ~@], "respelled")
  \/ Become([url EXCEPT !.port = ":443"], "respelled")
  \/ /\ url.path # <<>> => ~IsEmpty(Last(url.path))
     /\ \E s \in Segments : IsEmpty(s) /\ Become([url EXCEPT !.path = Append(@, s)], "respelled")
  \/ /\ IsGithub(url.host)
     /\ \E i \in DOMAIN url.path :
          \/ Become([url EXCEPT !.path[i].upper = ~@], "respelled")
          \/ /\ i = 2 /\ url.path[i].gits = 0 /\ ~IsEmpty(url.path[i])
             /\ Become([url EXCEPT !.path[i].gits = 1], "respelled")

\* Another place: the case of a name elsewhere, another name, one segment more,
\* or another host.
Move ==
  \/ /\ ~IsGithub(url.host)
     /\ \E i \in DOMAIN url.path : Become([url EXCEPT !.path[i].upper = ~@], "moved")
  \/ \E i \in DOMAIN url.path, s \in Segments :
       /\ ~IsEmpty(url.path[i]) /\ ~IsEmpty(s) /\ s.stem # url.path[i].stem
       /\ Become([url EXCEPT !.path[i] = s], "moved")
  \/ \E s \in Segments :
       /\ ~IsEmpty(s)
       /\ Become([url EXCEPT !.path = Append(Trimmed(@), s)], "moved")
  \/ \E h \in Hosts : h.name # url.host.name /\ Become([url EXCEPT !.host = h], "moved")

Init == url \in Url /\ step = "respelled"
Next == Respell \/ Move
Spec == Init /\ [][Next]_vars

-----------------------------------------------------------------------------
(* Correctness.                                                            *)

Identifies(u) == Normalize(u) # None

\* The URL is one of the instance, and an identifier has the form of its
\* namespace: owner and repository in lower case, or a lower-case host that does
\* not end with a dot and a path that does not end with a slash.
TypeOK ==
  /\ IsUrl(url) /\ step \in {"respelled", "moved"}
  /\ Identifies(url) =>
       LET id == Normalize(url)
       IN  /\ \A i \in DOMAIN id.path : ~IsEmpty(id.path[i])
           /\ \/ /\ id.namespace = "github" /\ Len(id.path) = 2
                 /\ ~id.path[1].upper /\ ~id.path[2].upper
              \/ /\ id.namespace = "url" /\ ~id.host.upper /\ id.host.glued # "."

\* Spelling does not matter, places do.  A URL that identifies a tool identifies
\* the same one in another case of the host, with the default port, with a final
\* slash, and on GitHub in any case and with .git; no such spelling is refused.
\* No other host, name, case of a name (outside GitHub) or longer path is taken
\* for the one before.
SameIdentityIfSamePlace ==
  Identifies(url) => (Normalize(url') = Normalize(url) <=> step' = "respelled")

\* Forms that the code refuses and the Python function accepts: a ? or # with
\* nothing behind it, after the path or a port; an @ in the path; a colon without a
\* port; an IPv6 literal.
OnlyReference(u) ==
  \/ u.path # <<>> /\ Last(u.path).glued \in Bare
  \/ "@" \in PathGlued(u)
  \/ u.port \in {":", ":443?"} \/ u.host.glued = "["

\* Forms that the code accepts: a ? or # after the host, part of the host then, and a
\* sign before the port.  The function refuses them, or answers the bare host.
OnlyPort(u) == u.host.glued \in Marks \/ u.port = ":+443"

\* The port answers what the Python function answers, except on the forms named
\* above: it refuses the first, and may accept the others.
AnswersAsReference ==
  \/ Normalize(url) = ReferenceNormalize(url)
  \/ OnlyReference(url) /\ ~Identifies(url)
  \/ OnlyPort(url)

\* A URL with a query or a fragment identifies nothing.
NoQueryNoFragment == HasQuery(url) => ~Identifies(url)

\* What is left of the text by taking .git away is a name: it does not end with
\* .git again and is not a dot or two.
IsPlain(segment) ==
  segment.gits < 2 /\ (segment.gits = 1 => segment.stem \notin {".", ".."})

\* What a URL is normalised to is canonical, outside GitHub and for plain names on
\* GitHub: the proposal of resolve_tool for such a URL passes the validation of
\* create_tool.
PlainProposalIsCanonical ==
  Identifies(url) /\ (IsGithub(url.host) => \A i \in DOMAIN url.path : IsPlain(url.path[i]))
    => Normalize(CanonicalUrl(Normalize(url))) = Normalize(url)

=============================================================================
