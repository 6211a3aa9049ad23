------------------------- MODULE UrlIdentity_proofs --------------------------
(***************************************************************************)
(* Proofs about UrlIdentity as a part of Services, for any hosts and names *)
(* and paths of any length: two URLs have one identity exactly when they   *)
(* mean one place, normalize_url answers as the Python function but on     *)
(* named forms, and what it proposes is canonical.                         *)
(***************************************************************************)
EXTENDS Services, SequenceTheorems, TLAPS

-----------------------------------------------------------------------------
(* Normal forms of URLs.                                                   *)

\* What can be glued to a host, and to a segment.
Attached == {"", ".", "?", "#", "?x", "#x", "@", "["}
Characters == {"", "?", "#", "?x", "#x", "%", "@"}

\* What the assumption says of the instance.
LEMMA UrlTexts ==
  /\ \A h \in Hosts : /\ h = [name |-> h.name, upper |-> h.upper, glued |-> h.glued]
                      /\ h.upper \in BOOLEAN /\ h.glued \in Attached
  /\ \A s \in Segments :
       /\ s = [stem |-> s.stem, upper |-> s.upper, gits |-> s.gits, glued |-> s.glued]
       /\ s.upper \in BOOLEAN /\ s.gits \in Nat /\ s.glued \in Characters
       /\ Urls!IsEmpty(s) => s.upper = FALSE
<1>1. /\ Hosts \subseteq [name: STRING, upper: BOOLEAN, glued: Attached]
      /\ Segments \subseteq [stem: STRING, upper: BOOLEAN, gits: Nat, glued: Characters]
      /\ \A s \in Segments : s.stem = "" /\ s.gits = 0 => ~s.upper
  BY ServicesAssumption DEF ServicesAssumption, Attached, Characters
<1>. DEFINE strings == STRING
<1>. HIDE DEF strings
<1>2. /\ Hosts \subseteq [name: strings, upper: BOOLEAN, glued: Attached]
      /\ Segments \subseteq [stem: strings, upper: BOOLEAN, gits: Nat, glued: Characters]
  BY <1>1 DEF strings
<1>3. \A h \in Hosts : /\ h = [name |-> h.name, upper |-> h.upper, glued |-> h.glued]
                        /\ h.upper \in BOOLEAN /\ h.glued \in Attached
  <2>. SUFFICES ASSUME NEW h \in Hosts
                PROVE  /\ h = [name |-> h.name, upper |-> h.upper, glued |-> h.glued]
                       /\ h.upper \in BOOLEAN /\ h.glued \in Attached
    OBVIOUS
  <2>1. h \in [name: strings, upper: BOOLEAN, glued: Attached]
    BY <1>2
  <2>. QED  BY <2>1
<1>4. \A s \in Segments :
        /\ s = [stem |-> s.stem, upper |-> s.upper, gits |-> s.gits, glued |-> s.glued]
        /\ s.upper \in BOOLEAN /\ s.gits \in Nat /\ s.glued \in Characters
  <2>. SUFFICES ASSUME NEW s \in Segments
                PROVE  /\ s = [stem |-> s.stem, upper |-> s.upper, gits |-> s.gits,
                               glued |-> s.glued]
                       /\ s.upper \in BOOLEAN /\ s.gits \in Nat /\ s.glued \in Characters
    OBVIOUS
  <2>1. s \in [stem: strings, upper: BOOLEAN, gits: Nat, glued: Characters]
    BY <1>2
  <2>. QED  BY <2>1
<1>5. \A s \in Segments : Urls!IsEmpty(s) => s.upper = FALSE
  BY <1>1, <1>4 DEF Urls!IsEmpty
<1>. QED  BY <1>3, <1>4, <1>5

\* The bound on paths.
LEMMA PathBound == MaxPath \in Nat
BY ServicesAssumption DEF ServicesAssumption

\* The parts of a URL.
LEMMA UrlParts ==
  ASSUME NEW u \in Urls!Url
  PROVE  /\ u = [host |-> u.host, port |-> u.port, path |-> u.path]
         /\ u.host \in Hosts /\ u.port \in Ports
         /\ u.path \in Seq(Segments) /\ Len(u.path) \in 0 .. MaxPath
<1>1. PICK n \in 0 .. MaxPath : u.path \in [1 .. n -> Segments]
  BY DEF Urls!Url
<1>2. u.path \in Seq(Segments) /\ Len(u.path) = n
  BY <1>1, PathBound
<1>3. u = [host |-> u.host, port |-> u.port, path |-> u.path]
      /\ u.host \in Hosts /\ u.port \in Ports
  BY DEF Urls!Url
<1>. QED  BY <1>1, <1>2, <1>3

\* A URL of its parts.
LEMMA UrlIs ==
  ASSUME NEW h \in Hosts, NEW q \in Ports, NEW p \in Seq(Segments), Len(p) <= MaxPath
  PROVE  [host |-> h, port |-> q, path |-> p] \in Urls!Url
<1>1. Len(p) \in 0 .. MaxPath /\ p \in [1 .. Len(p) -> Segments]
  BY PathBound
<1>2. p \in UNION {[1 .. n -> Segments] : n \in 0 .. MaxPath}
  BY <1>1
<1>. DEFINE paths == UNION {[1 .. n -> Segments] : n \in 0 .. MaxPath}
<1>. HIDE DEF paths
<1>3. p \in paths /\ Urls!Url = [host: Hosts, port: Ports, path: paths]
  BY <1>2 DEF Urls!Url, paths
<1>. QED  BY <1>3

\* A path without its final slash.
LEMMA TrimmedIs ==
  ASSUME NEW p \in Seq(Segments), NEW t, t = Urls!Trimmed(p)
  PROVE  /\ t \in Seq(Segments)
         /\ Len(t) = IF p # <<>> /\ Urls!IsEmpty(p[Len(p)]) THEN Len(p) - 1 ELSE Len(p)
         /\ \A i \in 1 .. Len(t) : t[i] = p[i]
<1>1. CASE p # <<>> /\ Urls!IsEmpty(p[Len(p)])
  <2>1. Len(p) \in Nat \ {0}
    BY <1>1
  <2>2. t = SubSeq(p, 1, Len(p) - 1)
    BY <1>1 DEF Urls!Trimmed, Urls!Last, Urls!Front
  <2>3. \A i \in 1 .. Len(p) - 1 : p[i] \in Segments
    BY <2>1
  <2>4. /\ t \in Seq(Segments)
        /\ Len(t) = IF 1 <= Len(p) - 1 THEN Len(p) - 1 - 1 + 1 ELSE 0
        /\ \A i \in 1 .. Len(p) - 1 - 1 + 1 : t[i] = p[1 + i - 1]
    <3>. DEFINE n == Len(p) - 1
    <3>1. n \in Int /\ 1 \in Int /\ \A i \in 1 .. n : p[i] \in Segments
      BY <2>1, <2>3
    <3>2. t = SubSeq(p, 1, n)
      BY <2>2
    <3>. HIDE DEF n
    <3>3. /\ t \in Seq(Segments)
          /\ Len(t) = IF 1 <= n THEN n - 1 + 1 ELSE 0
          /\ \A i \in 1 .. n - 1 + 1 : t[i] = p[1 + i - 1]
      BY <3>1, <3>2, SubSeqProperties
    <3>. QED  BY <3>3 DEF n
  <2>5. Len(t) = Len(p) - 1 /\ \A i \in 1 .. Len(t) : t[i] = p[i]
    <3>1. Len(t) = Len(p) - 1 /\ Len(p) - 1 - 1 + 1 = Len(p) - 1
      <4>. DEFINE m == Len(p)
                  k == Len(t)
      <4>1. m \in Nat \ {0} /\ k = IF 1 <= m - 1 THEN m - 1 - 1 + 1 ELSE 0
        BY <2>1, <2>4
      <4>. HIDE DEF m, k
      <4>2. k = m - 1 /\ m - 1 - 1 + 1 = m - 1
        BY <4>1
      <4>. QED  BY <4>2 DEF m, k
    <3>2. \A i \in 1 .. Len(t) : 1 + i - 1 = i
      OBVIOUS
    <3>3. \A i \in 1 .. Len(t) : t[i] = p[1 + i - 1]
      BY <2>4, <3>1
    <3>. QED  BY <3>1, <3>2, <3>3
  <2>. QED  BY <1>1, <2>4, <2>5
<1>2. CASE ~(p # <<>> /\ Urls!IsEmpty(p[Len(p)]))
  BY <1>2 DEF Urls!Trimmed, Urls!Last
<1>. QED  BY <1>1, <1>2

\* The inner segments of an acceptable path are not empty, and so no segment is
\* once a final slash is gone.
InnerNamed(p) == \A i \in 1 .. Len(p) - 1 : ~Urls!IsEmpty(p[i])

\* What is left of the path has names alone, and all of them.
LEMMA TrimmedIsNamed ==
  ASSUME NEW p \in Seq(Segments), InnerNamed(p), NEW t, t = Urls!Trimmed(p)
  PROVE  /\ \A i \in 1 .. Len(t) : ~Urls!IsEmpty(t[i])
         /\ \A i \in 1 .. Len(p) : ~Urls!IsEmpty(p[i]) => i \in 1 .. Len(t)
         /\ \A i \in 1 .. Len(p) : i \notin 1 .. Len(t) => Urls!IsEmpty(p[i])
<1>1. /\ Len(p) \in Nat /\ (p # <<>> <=> Len(p) # 0)
      /\ Len(t) = IF p # <<>> /\ Urls!IsEmpty(p[Len(p)]) THEN Len(p) - 1 ELSE Len(p)
      /\ \A i \in 1 .. Len(t) : t[i] = p[i]
  BY TrimmedIs
<1>. QED  BY <1>1 DEF InnerNamed

\* Without an empty segment there is nothing to trim.
LEMMA TrimmedAgain ==
  ASSUME NEW p \in Seq(Segments), \A i \in 1 .. Len(p) : ~Urls!IsEmpty(p[i])
  PROVE  Urls!Trimmed(p) = p
BY DEF Urls!Trimmed, Urls!Last

\* The tests on a URL.
LEMMA AcceptableIs ==
  ASSUME NEW u \in Urls!Url
  PROVE  Urls!Acceptable(u)
           <=> /\ u.host.glued \notin {"@", ".", "["} /\ u.port \in {"", ":443", ":+443"}
               /\ u.host.name # "" \/ u.host.glued # ""
               /\ InnerNamed(u.path)
               /\ \A i \in 1 .. Len(u.path) :
                    /\ u.path[i].glued \notin {"@", "?", "#", "?x", "#x", "%"}
                    /\ ~Urls!IsDots(u.path[i])
<1>1. u.path \in Seq(Segments) /\ DOMAIN u.path = 1 .. Len(u.path)
  BY UrlParts
<1>. QED  BY <1>1 DEF Urls!Acceptable, Urls!Glued, Urls!PathGlued, Urls!Marks, Urls!Bare,
                      InnerNamed

\* Lower case, and one .git less.
LEMMA LowerHost ==
  ASSUME NEW h \in Hosts
  PROVE  Urls!Lower(h) = [name |-> h.name, upper |-> FALSE, glued |-> h.glued]
<1>1. ASSUME NEW k, NEW n, NEW b, NEW c, NEW e,
             k = [name |-> n, upper |-> b, glued |-> c]
      PROVE  [k EXCEPT !.upper = e] = [name |-> n, upper |-> e, glued |-> c]
  BY <1>1
<1>2. h = [name |-> h.name, upper |-> h.upper, glued |-> h.glued]
  BY UrlTexts
<1>3. [h EXCEPT !.upper = FALSE] = [name |-> h.name, upper |-> FALSE, glued |-> h.glued]
  <2>. DEFINE no == FALSE
  <2>. HIDE DEF no
  <2>1. [h EXCEPT !.upper = no] = [name |-> h.name, upper |-> no, glued |-> h.glued]
    BY <1>1, <1>2
  <2>. QED  BY <2>1 DEF no
<1>. QED  BY <1>3 DEF Urls!Lower

\* The same of a name, and the repository.
LEMMA LowerName ==
  ASSUME NEW s \in Segments
  PROVE  /\ Urls!Lower(s) = [stem |-> s.stem, upper |-> FALSE, gits |-> s.gits,
                             glued |-> s.glued]
         /\ Urls!Repository(s) = [stem |-> s.stem, upper |-> FALSE,
                                  gits |-> IF s.gits > 0 THEN s.gits - 1 ELSE 0,
                                  glued |-> s.glued]
<1>1. ASSUME NEW k, NEW n, NEW b, NEW g, NEW c, NEW e,
             k = [stem |-> n, upper |-> b, gits |-> g, glued |-> c]
      PROVE  /\ [k EXCEPT !.upper = e] = [stem |-> n, upper |-> e, gits |-> g, glued |-> c]
             /\ [k EXCEPT !.gits = e] = [stem |-> n, upper |-> b, gits |-> e, glued |-> c]
  BY <1>1
<1>2. s = [stem |-> s.stem, upper |-> s.upper, gits |-> s.gits, glued |-> s.glued]
  BY UrlTexts
<1>3. [s EXCEPT !.upper = FALSE] = [stem |-> s.stem, upper |-> FALSE, gits |-> s.gits,
                                    glued |-> s.glued]
  <2>. DEFINE no == FALSE
  <2>. HIDE DEF no
  <2>1. [s EXCEPT !.upper = no] = [stem |-> s.stem, upper |-> no, gits |-> s.gits,
                                   glued |-> s.glued]
    BY <1>1, <1>2
  <2>. QED  BY <2>1 DEF no
<1>4. Urls!Lower(s) = [stem |-> s.stem, upper |-> FALSE, gits |-> s.gits,
                       glued |-> s.glued]
  BY <1>3 DEF Urls!Lower
<1>. DEFINE low == Urls!Lower(s)
            n == IF s.gits > 0 THEN s.gits - 1 ELSE 0
<1>5. low.gits = s.gits
  BY <1>4
<1>6. Urls!Repository(s) = [low EXCEPT !.gits = n]
  BY <1>5 DEF Urls!Repository
<1>7. [low EXCEPT !.gits = n] = [stem |-> s.stem, upper |-> FALSE, gits |-> n,
                                 glued |-> s.glued]
  <2>. DEFINE no == FALSE
  <2>1. low = [stem |-> s.stem, upper |-> no, gits |-> s.gits, glued |-> s.glued]
    BY <1>4
  <2>. HIDE DEF n, low, no
  <2>2. [low EXCEPT !.gits = n] = [stem |-> s.stem, upper |-> no, gits |-> n,
                                   glued |-> s.glued]
    BY <1>1, <2>1
  <2>. QED  BY <2>2 DEF no
<1>. QED  BY <1>4, <1>6, <1>7

\* A URL that identifies is acceptable, and on GitHub it has two segments.
LEMMA IdentifiesIs ==
  ASSUME NEW u, NEW t, t = Urls!Trimmed(u.path), Urls!Identifies(u)
  PROVE  /\ Urls!Acceptable(u)
         /\ Urls!IsGithub(u.host) =>
              /\ Len(t) = 2 /\ ~Urls!IsEmpty(Urls!Repository(t[2]))
              /\ Urls!Normalize(u) = [namespace |-> "github",
                                      path |-> <<Urls!Lower(t[1]), Urls!Repository(t[2])>>]
         /\ ~Urls!IsGithub(u.host) =>
              Urls!Normalize(u)
                = [namespace |-> "url", host |-> Urls!Lower(u.host), path |-> t]
BY DEF Urls!Identifies, Urls!Normalize, Urls!GithubValue, Urls!GeneralValue, Urls!ValueHost

\* What is the same of two URLs of one identifier.
LEMMA SameForm ==
  ASSUME NEW u, NEW v, Urls!Identifies(u), Urls!Acceptable(v),
         NEW t, t = Urls!Trimmed(u.path), NEW r, r = Urls!Trimmed(v.path),
         Urls!IsGithub(v.host) <=> Urls!IsGithub(u.host),
         ~Urls!IsGithub(u.host) => Urls!Lower(v.host) = Urls!Lower(u.host) /\ r = t,
         Urls!IsGithub(u.host) => /\ Len(r) = Len(t)
                                  /\ Urls!Lower(r[1]) = Urls!Lower(t[1])
                                  /\ Urls!Repository(r[2]) = Urls!Repository(t[2])
  PROVE  Urls!Normalize(v) = Urls!Normalize(u)
<1>1. CASE Urls!IsGithub(u.host)
  BY <1>1 DEF Urls!Identifies, Urls!Normalize, Urls!GithubValue
<1>2. CASE ~Urls!IsGithub(u.host)
  BY <1>2 DEF Urls!Identifies, Urls!Normalize, Urls!GeneralValue, Urls!ValueHost
<1>. QED  BY <1>1, <1>2

\* Paths with the same empty segments.
LEMMA SameEmpty ==
  ASSUME NEW p \in Seq(Segments), NEW q \in Seq(Segments), Len(q) = Len(p),
         \A j \in 1 .. Len(p) : Urls!IsEmpty(q[j]) <=> Urls!IsEmpty(p[j]),
         NEW t, t = Urls!Trimmed(p), NEW r, r = Urls!Trimmed(q)
  PROVE  /\ InnerNamed(p) => InnerNamed(q)
         /\ Len(r) = Len(t)
         /\ \A j \in 1 .. Len(t) : t[j] = p[j] /\ r[j] = q[j]
<1>1. /\ Len(t) = IF p # <<>> /\ Urls!IsEmpty(p[Len(p)]) THEN Len(p) - 1 ELSE Len(p)
      /\ \A j \in 1 .. Len(t) : t[j] = p[j]
  BY TrimmedIs
<1>2. /\ Len(r) = IF q # <<>> /\ Urls!IsEmpty(q[Len(q)]) THEN Len(q) - 1 ELSE Len(q)
      /\ \A j \in 1 .. Len(r) : r[j] = q[j]
  BY TrimmedIs
<1>3. Len(p) \in Nat /\ (p = <<>> <=> Len(p) = 0) /\ (q = <<>> <=> Len(q) = 0)
  OBVIOUS
<1>4. Len(r) = Len(t)
  BY <1>1, <1>2, <1>3
<1>5. InnerNamed(p) => InnerNamed(q)
  BY <1>3 DEF InnerNamed
<1>. QED  BY <1>1, <1>2, <1>4, <1>5

\* One segment replaced by another.
Replaced(p, i, x, q) ==
  /\ q \in Seq(Segments) /\ Len(q) = Len(p)
  /\ \A j \in 1 .. Len(p) : q[j] = IF j = i THEN x ELSE p[j]

\* EXCEPT replaces a segment.
LEMMA ReplacedIs ==
  ASSUME NEW p \in Seq(Segments), NEW i \in 1 .. Len(p), NEW x \in Segments
  PROVE  Replaced(p, i, x, [p EXCEPT ![i] = x])
BY ExceptSeq DEF Replaced

\* A segment replaced by one that is empty when it was.
LEMMA SegmentReplaced ==
  ASSUME NEW p \in Seq(Segments), NEW i \in 1 .. Len(p), NEW x \in Segments,
         Urls!IsEmpty(x) <=> Urls!IsEmpty(p[i]), NEW q, Replaced(p, i, x, q),
         NEW t, t = Urls!Trimmed(p), NEW r, r = Urls!Trimmed(q)
  PROVE  /\ InnerNamed(p) => InnerNamed(q)
         /\ Len(r) = Len(t)
         /\ \A j \in 1 .. Len(t) : t[j] = p[j] /\ r[j] = q[j]
<1>1. \A j \in 1 .. Len(p) : Urls!IsEmpty(q[j]) <=> Urls!IsEmpty(p[j])
  BY DEF Replaced
<1>. QED  BY <1>1, SameEmpty DEF Replaced

-----------------------------------------------------------------------------
(* Other spellings.                                                        *)

\* The URL after a step.
LEMMA BecomesUrl ==
  ASSUME NEW v, Urls!IsUrl(v), NEW h, NEW q, NEW p \in Seq(Segments),
         v = [host |-> h, port |-> q, path |-> p]
  PROVE  v \in Urls!Url
<1>1. v.host = h /\ v.port = q /\ v.path = p
  OBVIOUS
<1>2. h \in Hosts /\ q \in Ports /\ Len(p) <= MaxPath
  BY <1>1 DEF Urls!IsUrl
<1>. QED  BY <1>2, UrlIs

\* A URL with one part changed.
LEMMA UrlChanged ==
  ASSUME NEW u \in Urls!Url
  PROVE  /\ \A h : [u EXCEPT !.host = h] = [host |-> h, port |-> u.port, path |-> u.path]
         /\ \A q : [u EXCEPT !.port = q] = [host |-> u.host, port |-> q, path |-> u.path]
         /\ \A p : [u EXCEPT !.path = p] = [host |-> u.host, port |-> u.port, path |-> p]
<1>1. u = [host |-> u.host, port |-> u.port, path |-> u.path]
  BY UrlParts
<1>2. ASSUME NEW k, NEW a, NEW b, NEW c, k = [host |-> a, port |-> b, path |-> c], NEW e
      PROVE  /\ [k EXCEPT !.host = e] = [host |-> e, port |-> b, path |-> c]
             /\ [k EXCEPT !.port = e] = [host |-> a, port |-> e, path |-> c]
             /\ [k EXCEPT !.path = e] = [host |-> a, port |-> b, path |-> e]
  BY <1>2
<1>. QED  BY <1>1, <1>2

\* Another case of a text, and one more .git.
LEMMA HostChanged ==
  ASSUME NEW h \in Hosts, NEW b
  PROVE  [h EXCEPT !.upper = b] = [name |-> h.name, upper |-> b, glued |-> h.glued]
<1>1. ASSUME NEW k, NEW n, NEW c, NEW e, NEW a,
             k = [name |-> n, upper |-> a, glued |-> c]
      PROVE  [k EXCEPT !.upper = e] = [name |-> n, upper |-> e, glued |-> c]
  BY <1>1
<1>2. h = [name |-> h.name, upper |-> h.upper, glued |-> h.glued]
  BY UrlTexts
<1>. QED  BY <1>1, <1>2

\* The same of a segment.
LEMMA SegmentChanged ==
  ASSUME NEW s \in Segments, NEW b
  PROVE  /\ [s EXCEPT !.upper = b] = [stem |-> s.stem, upper |-> b, gits |-> s.gits,
                                      glued |-> s.glued]
         /\ [s EXCEPT !.gits = b] = [stem |-> s.stem, upper |-> s.upper, gits |-> b,
                                     glued |-> s.glued]
<1>1. ASSUME NEW k, NEW n, NEW c, NEW e, NEW a, NEW g,
             k = [stem |-> n, upper |-> a, gits |-> g, glued |-> c]
      PROVE  /\ [k EXCEPT !.upper = e] = [stem |-> n, upper |-> e, gits |-> g, glued |-> c]
             /\ [k EXCEPT !.gits = e] = [stem |-> n, upper |-> a, gits |-> e, glued |-> c]
  BY <1>1
<1>2. s = [stem |-> s.stem, upper |-> s.upper, gits |-> s.gits, glued |-> s.glued]
  BY UrlTexts
<1>. QED  BY <1>1, <1>2

\* Spellings of one host.
LEMMA HostRespelled ==
  ASSUME NEW u \in Urls!Url,
         NEW v, v = [u EXCEPT !.host.upper = ~@], Urls!IsUrl(v)
  PROVE  /\ v \in Urls!Url
         /\ Urls!Identifies(u) => Urls!Normalize(v) = Urls!Normalize(u)
<1>. DEFINE h == u.host
            b == ~h.upper
            g == [name |-> h.name, upper |-> b, glued |-> h.glued]
<1>1. /\ h \in Hosts /\ u.path \in Seq(Segments)
  BY UrlParts
<1>2. v = [host |-> g, port |-> u.port, path |-> u.path]
  <2>1. v = [u EXCEPT !.host = [h EXCEPT !.upper = b]]
    OBVIOUS
  <2>. HIDE DEF b
  <2>2. [h EXCEPT !.upper = b] = g
    BY <1>1, HostChanged
  <2>3. v = [u EXCEPT !.host = g]
    BY <2>1, <2>2
  <2>. HIDE DEF g
  <2>. QED  BY <2>3, UrlChanged
<1>. HIDE DEF b, g
<1>3. v \in Urls!Url
  BY <1>1, <1>2, BecomesUrl
<1>. SUFFICES ASSUME Urls!Identifies(u) PROVE Urls!Normalize(v) = Urls!Normalize(u)
  BY <1>3
<1>4. g \in Hosts /\ v.host = g /\ v.port = u.port /\ v.path = u.path
  BY SMTT(30), <1>2, <1>3, UrlParts
<1>5. g.name = h.name /\ g.glued = h.glued
  BY DEF g
<1>6. Urls!Lower(g) = Urls!Lower(h)
  BY <1>1, <1>4, <1>5, LowerHost
<1>7. Urls!Acceptable(u)
  BY IdentifiesIs
<1>8. Urls!Acceptable(v)
  BY <1>3, <1>4, <1>5, <1>7, AcceptableIs
<1>9. Urls!IsGithub(v.host) <=> Urls!IsGithub(u.host)
  BY <1>4, <1>5 DEF Urls!IsGithub
<1>10. Urls!Trimmed(v.path) = Urls!Trimmed(u.path)
  BY <1>4
<1>11. Urls!Normalize(v) = Urls!Normalize(u)
  BY <1>4, <1>6, <1>8, <1>9, <1>10, SameForm
<1>. QED  BY <1>11

\* The default port.
LEMMA PortRespelled ==
  ASSUME NEW u \in Urls!Url,
         NEW v, v = [u EXCEPT !.port = ":443"], Urls!IsUrl(v)
  PROVE  /\ v \in Urls!Url
         /\ Urls!Identifies(u) => Urls!Normalize(v) = Urls!Normalize(u)
<1>1. v = [host |-> u.host, port |-> ":443", path |-> u.path]
  BY UrlChanged
<1>2. v \in Urls!Url
  BY <1>1, UrlParts, BecomesUrl
<1>. SUFFICES ASSUME Urls!Identifies(u) PROVE Urls!Normalize(v) = Urls!Normalize(u)
  BY <1>2
<1>3. v.host = u.host /\ v.port = ":443" /\ v.path = u.path
  BY <1>1
<1>4. Urls!Acceptable(u)
  BY IdentifiesIs
<1>5. Urls!Acceptable(v)
  BY <1>2, <1>3, <1>4, AcceptableIs
<1>. QED  BY <1>3, <1>5, SameForm

\* One segment more.
LEMMA SegmentAppended ==
  ASSUME NEW p \in Seq(Segments), NEW s \in Segments, NEW q, q = Append(p, s)
  PROVE  /\ q \in Seq(Segments) /\ Len(q) = Len(p) + 1 /\ q[Len(p) + 1] = s
         /\ \A i \in 1 .. Len(p) : q[i] = p[i]
BY AppendProperties

\* A final slash.
LEMMA SlashAppended ==
  ASSUME NEW u \in Urls!Url,
         u.path # <<>> => ~Urls!IsEmpty(Urls!Last(u.path)),
         NEW s \in Segments, Urls!IsEmpty(s),
         NEW v, v = [u EXCEPT !.path = Append(@, s)], Urls!IsUrl(v)
  PROVE  /\ v \in Urls!Url
         /\ Urls!Identifies(u) => Urls!Normalize(v) = Urls!Normalize(u)
<1>. DEFINE p == u.path
            q == Append(u.path, s)
<1>1. p \in Seq(Segments) /\ Len(p) \in Nat
  BY UrlParts
<1>2. /\ q \in Seq(Segments) /\ Len(q) = Len(p) + 1 /\ q[Len(p) + 1] = s
      /\ \A i \in 1 .. Len(p) : q[i] = p[i]
  BY <1>1, SegmentAppended
<1>3. v = [u EXCEPT !.path = q]
  OBVIOUS
<1>. HIDE DEF q
<1>4. v = [host |-> u.host, port |-> u.port, path |-> q]
  BY <1>3, UrlChanged
<1>5. v \in Urls!Url
  BY <1>2, <1>4, BecomesUrl
<1>. SUFFICES ASSUME Urls!Identifies(u) PROVE Urls!Normalize(v) = Urls!Normalize(u)
  BY <1>5
<1>6. v.host = u.host /\ v.port = u.port /\ v.path = q
  BY <1>4
<1>7. Urls!Acceptable(u)
  BY IdentifiesIs
<1>8. \A i \in 1 .. Len(p) : ~Urls!IsEmpty(p[i])
  <2>1. InnerNamed(p)
    BY <1>7, AcceptableIs
  <2>2. Len(p) # 0 => ~Urls!IsEmpty(p[Len(p)])
    BY <1>1 DEF Urls!Last
  <2>. QED  BY <1>1, <2>1, <2>2 DEF InnerNamed
<1>9. InnerNamed(q)
  BY <1>1, <1>2, <1>8 DEF InnerNamed
<1>10. s.glued = "" /\ ~Urls!IsDots(s)
  BY DEF Urls!IsEmpty, Urls!IsDots
<1>11. \A i \in 1 .. Len(q) :
         q[i].glued \notin {"@", "?", "#", "?x", "#x", "%"} /\ ~Urls!IsDots(q[i])
  <2>1. \A i \in 1 .. Len(p) :
          p[i].glued \notin {"@", "?", "#", "?x", "#x", "%"} /\ ~Urls!IsDots(p[i])
    BY <1>7, AcceptableIs
  <2>2. \A i \in 1 .. Len(q) : i \in 1 .. Len(p) \/ i = Len(p) + 1
    BY <1>1, <1>2
  <2>. QED  BY <1>2, <1>10, <2>1, <2>2
<1>12. Urls!Acceptable(v)
  BY <1>5, <1>6, <1>7, <1>9, <1>11, AcceptableIs
<1>13. Urls!Trimmed(p) = p
  BY <1>1, <1>8, TrimmedAgain
<1>14. Urls!Trimmed(q) = p
  <2>. DEFINE t == Urls!Trimmed(q)
  <2>1. /\ t \in Seq(Segments)
        /\ Len(t) = IF q # <<>> /\ Urls!IsEmpty(q[Len(q)]) THEN Len(q) - 1 ELSE Len(q)
        /\ \A i \in 1 .. Len(t) : t[i] = q[i]
    BY <1>2, TrimmedIs
  <2>2. q # <<>> /\ Urls!IsEmpty(q[Len(q)])
    BY <1>1, <1>2
  <2>. HIDE DEF t
  <2>3. Len(t) = Len(p) /\ \A i \in 1 .. Len(t) : t[i] = p[i]
    BY <1>1, <1>2, <2>1, <2>2
  <2>4. t = p
    BY <1>1, <2>1, <2>3, SeqEqual
  <2>. QED  BY <2>4 DEF t
<1>15. Urls!Normalize(v) = Urls!Normalize(u)
  BY <1>6, <1>12, <1>13, <1>14, SameForm
<1>. QED  BY <1>15

\* Another spelling of a segment of a GitHub URL.
LEMMA NameRespelled ==
  ASSUME NEW u \in Urls!Url, Urls!IsGithub(u.host),
         NEW i \in 1 .. Len(u.path), NEW x \in Segments,
         Urls!IsEmpty(x) <=> Urls!IsEmpty(u.path[i]),
         x.glued = u.path[i].glued, ~Urls!IsDots(u.path[i]) => ~Urls!IsDots(x),
         Urls!Repository(x) = Urls!Repository(u.path[i]),
         i = 2 \/ Urls!Lower(x) = Urls!Lower(u.path[i]),
         NEW q, Replaced(u.path, i, x, q),
         NEW v, v = [host |-> u.host, port |-> u.port, path |-> q], Urls!IsUrl(v)
  PROVE  /\ v \in Urls!Url
         /\ Urls!Identifies(u) => Urls!Normalize(v) = Urls!Normalize(u)
<1>. DEFINE p == u.path
            t == Urls!Trimmed(p)
            r == Urls!Trimmed(q)
<1>1. p \in Seq(Segments) /\ Len(p) \in Nat
  BY UrlParts
<1>2. /\ q \in Seq(Segments) /\ Len(q) = Len(p)
      /\ \A j \in 1 .. Len(p) : q[j] = IF j = i THEN x ELSE p[j]
      /\ InnerNamed(p) => InnerNamed(q)
      /\ Len(r) = Len(t)
      /\ \A j \in 1 .. Len(t) : t[j] = p[j] /\ r[j] = q[j]
  <2>1. /\ q \in Seq(Segments) /\ Len(q) = Len(p)
        /\ \A j \in 1 .. Len(p) : q[j] = IF j = i THEN x ELSE p[j]
    BY DEF Replaced
  <2>2. /\ InnerNamed(p) => InnerNamed(q)
        /\ Len(r) = Len(t)
        /\ \A j \in 1 .. Len(t) : t[j] = p[j] /\ r[j] = q[j]
    <3>1. p \in Seq(Segments) /\ i \in 1 .. Len(p) /\ Replaced(p, i, x, q)
          /\ (Urls!IsEmpty(x) <=> Urls!IsEmpty(p[i]))
      BY <1>1
    <3>. HIDE DEF p
    <3>. QED  BY <3>1, SegmentReplaced
  <2>. QED  BY <2>1, <2>2
<1>4. v \in Urls!Url
  BY <1>2, BecomesUrl
<1>. SUFFICES ASSUME Urls!Identifies(u) PROVE Urls!Normalize(v) = Urls!Normalize(u)
  BY <1>4
<1>5. v.host = u.host /\ v.port = u.port /\ v.path = q
  OBVIOUS
<1>6. Urls!Acceptable(u) /\ Len(t) = 2
  BY IdentifiesIs
<1>7. \A j \in 1 .. Len(q) :
        q[j].glued \notin {"@", "?", "#", "?x", "#x", "%"} /\ ~Urls!IsDots(q[j])
  <2>1. \A j \in 1 .. Len(p) :
          p[j].glued \notin {"@", "?", "#", "?x", "#x", "%"} /\ ~Urls!IsDots(p[j])
    BY <1>6, AcceptableIs
  <2>. QED  BY <1>2, <2>1
<1>8. Urls!Acceptable(v)
  <2>1. InnerNamed(p)
    BY <1>6, AcceptableIs
  <2>. QED  BY <1>2, <1>4, <1>5, <1>6, <1>7, <2>1, AcceptableIs
<1>9. Len(t) <= Len(p) /\ 1 \in 1 .. Len(t) /\ 2 \in 1 .. Len(t)
  <2>1. Len(t) <= Len(p)
    BY <1>1, TrimmedIs
  <2>. QED  BY <1>6, <2>1
<1>10. /\ t[1] = p[1] /\ r[1] = q[1] /\ t[2] = p[2] /\ r[2] = q[2]
       /\ q[1] = IF 1 = i THEN x ELSE p[1]
       /\ q[2] = IF 2 = i THEN x ELSE p[2]
  <2>1. 1 \in 1 .. Len(p) /\ 2 \in 1 .. Len(p)
    BY <1>1, <1>6, <1>9
  <2>. QED  BY <1>2, <1>9, <2>1
<1>11. /\ Urls!Lower(r[1]) = Urls!Lower(t[1])
       /\ Urls!Repository(r[2]) = Urls!Repository(t[2])
  BY <1>10
<1>. HIDE DEF t, r
<1>12. Urls!Normalize(v) = Urls!Normalize(u)
  BY <1>2, <1>5, <1>8, <1>11, SameForm DEF t, r
<1>. QED  BY <1>12

\* Segments with another case, or with a first .git.
LEMMA SegmentParts ==
  ASSUME NEW s \in Segments, NEW x,
         \/ x = [s EXCEPT !.upper = ~@]
         \/ x = [s EXCEPT !.gits = 1] /\ s.gits = 0 /\ ~Urls!IsEmpty(s)
  PROVE  /\ x.stem = s.stem /\ x.glued = s.glued
         /\ Urls!IsEmpty(x) <=> Urls!IsEmpty(s)
         /\ ~Urls!IsDots(s) => ~Urls!IsDots(x)
<1>1. CASE x = [s EXCEPT !.upper = ~@]
  <2>. DEFINE b == ~s.upper
  <2>1. x = [s EXCEPT !.upper = b]
    BY <1>1
  <2>. HIDE DEF b
  <2>2. x = [stem |-> s.stem, upper |-> b, gits |-> s.gits, glued |-> s.glued]
    BY <2>1, SegmentChanged
  <2>. QED  BY <2>2 DEF Urls!IsEmpty, Urls!IsDots
<1>2. CASE x = [s EXCEPT !.gits = 1] /\ s.gits = 0 /\ ~Urls!IsEmpty(s)
  <2>1. x = [stem |-> s.stem, upper |-> s.upper, gits |-> 1, glued |-> s.glued]
    BY <1>2, SegmentChanged
  <2>. QED  BY <1>2, <2>1 DEF Urls!IsEmpty, Urls!IsDots
<1>. QED  BY <1>1, <1>2

\* On GitHub these are spellings of one name.
LEMMA SegmentSpellings ==
  ASSUME NEW s \in Segments, NEW x \in Segments
  PROVE  /\ x = [s EXCEPT !.upper = ~@] =>
              /\ Urls!Lower(x) = Urls!Lower(s) /\ Urls!Repository(x) = Urls!Repository(s)
              /\ x.upper # s.upper
         /\ x = [s EXCEPT !.gits = 1] /\ s.gits = 0 => Urls!Repository(x) = Urls!Repository(s)
<1>1. ASSUME x = [s EXCEPT !.upper = ~@]
      PROVE  /\ Urls!Lower(x) = Urls!Lower(s) /\ Urls!Repository(x) = Urls!Repository(s)
             /\ x.upper # s.upper
  <2>. DEFINE b == ~s.upper
  <2>1. x = [s EXCEPT !.upper = b]
    BY <1>1
  <2>2. b # s.upper
    OBVIOUS
  <2>. HIDE DEF b
  <2>3. x = [stem |-> s.stem, upper |-> b, gits |-> s.gits, glued |-> s.glued]
    BY <2>1, SegmentChanged
  <2>4. x.stem = s.stem /\ x.gits = s.gits /\ x.glued = s.glued /\ x.upper = b
    BY <2>3
  <2>5. Urls!Lower(x) = Urls!Lower(s) /\ Urls!Repository(x) = Urls!Repository(s)
    BY <2>4, LowerName
  <2>. QED  BY <2>2, <2>4, <2>5
<1>2. ASSUME x = [s EXCEPT !.gits = 1], s.gits = 0
      PROVE  Urls!Repository(x) = Urls!Repository(s)
  <2>1. x = [stem |-> s.stem, upper |-> s.upper, gits |-> 1, glued |-> s.glued]
    BY <1>2, SegmentChanged
  <2>2. x.stem = s.stem /\ x.gits = 1 /\ x.glued = s.glued
    BY <2>1
  <2>3. (IF x.gits > 0 THEN x.gits - 1 ELSE 0) = (IF s.gits > 0 THEN s.gits - 1 ELSE 0)
    BY <1>2, <2>2
  <2>. QED  BY <2>2, <2>3, LowerName
<1>. QED  BY <1>1, <1>2

\* A segment of the URL after a step.
LEMMA SegmentBecomes ==
  ASSUME NEW u \in Urls!Url, NEW i \in DOMAIN u.path, NEW x,
         NEW v, v = [u EXCEPT !.path = [u.path EXCEPT ![i] = x]], Urls!IsUrl(v)
  PROVE  /\ i \in 1 .. Len(u.path) /\ u.path[i] \in Segments
         /\ x \in Segments
         /\ \E q : /\ Replaced(u.path, i, x, q)
                   /\ v = [host |-> u.host, port |-> u.port, path |-> q]
<1>. DEFINE p == u.path
            q == [p EXCEPT ![i] = x]
<1>1. p \in Seq(Segments) /\ DOMAIN p = 1 .. Len(p)
  BY UrlParts
<1>2. i \in 1 .. Len(p) /\ p[i] \in Segments
  BY <1>1
<1>3. v = [host |-> u.host, port |-> u.port, path |-> q]
  BY UrlChanged
<1>4. x \in Segments
  <2>1. q[i] = x /\ i \in DOMAIN q
    BY <1>1
  <2>2. v.path = q
    BY <1>3
  <2>. HIDE DEF q
  <2>3. x \in Urls!Range(v.path)
    BY <2>1, <2>2 DEF Urls!Range
  <2>. QED  BY <2>3 DEF Urls!IsUrl
<1>5. Replaced(p, i, x, q)
  BY <1>1, <1>2, <1>4, ReplacedIs
<1>. QED  BY <1>2, <1>3, <1>4, <1>5

\* A URL with another segment, and the other spellings of a segment on GitHub.
With(u, i, x) == [u EXCEPT !.path = [u.path EXCEPT ![i] = x]]

OtherSpelling(s, i, x) ==
  \/ x = [s EXCEPT !.upper = ~@]
  \/ x = [s EXCEPT !.gits = 1] /\ s.gits = 0 /\ ~Urls!IsEmpty(s) /\ i = 2

\* A segment of a GitHub URL in another case, or with a first .git.
LEMMA GithubRespelled ==
  ASSUME NEW u \in Urls!Url, Urls!IsGithub(u.host), NEW i \in DOMAIN u.path,
         NEW s, s = u.path[i], NEW x,
         OtherSpelling(s, i, x), NEW v, v = With(u, i, x), Urls!IsUrl(v)
  PROVE  /\ v \in Urls!Url
         /\ Urls!Identifies(u) => Urls!Normalize(v) = Urls!Normalize(u)
<1>1. /\ i \in 1 .. Len(u.path) /\ s \in Segments /\ x \in Segments
      /\ \E q : /\ Replaced(u.path, i, x, q)
                /\ v = [host |-> u.host, port |-> u.port, path |-> q]
  BY SegmentBecomes DEF With
<1>2. PICK q : /\ Replaced(u.path, i, x, q)
               /\ v = [host |-> u.host, port |-> u.port, path |-> q]
  BY <1>1
<1>3. /\ x.glued = s.glued
      /\ Urls!IsEmpty(x) <=> Urls!IsEmpty(s)
      /\ ~Urls!IsDots(s) => ~Urls!IsDots(x)
  BY <1>1, SegmentParts DEF OtherSpelling
<1>4. /\ Urls!Repository(x) = Urls!Repository(s)
      /\ i = 2 \/ Urls!Lower(x) = Urls!Lower(s)
  BY <1>1, SegmentSpellings DEF OtherSpelling
<1>5. /\ Urls!IsEmpty(x) <=> Urls!IsEmpty(u.path[i])
      /\ x.glued = u.path[i].glued
      /\ ~Urls!IsDots(u.path[i]) => ~Urls!IsDots(x)
      /\ Urls!Repository(x) = Urls!Repository(u.path[i])
      /\ i = 2 \/ Urls!Lower(x) = Urls!Lower(u.path[i])
  BY <1>3, <1>4
<1>6. i \in 1 .. Len(u.path) /\ x \in Segments
  BY <1>1
<1>7. v = [host |-> u.host, port |-> u.port, path |-> q]
  BY <1>2
<1>. QED  BY <1>2, <1>5, <1>6, <1>7, NameRespelled

\* Whatever is respelled keeps its identity.
LEMMA RespelledIsSame ==
  ASSUME url \in Urls!Url, Urls!Respell
  PROVE  /\ url' \in Urls!Url /\ step' = "respelled"
         /\ Urls!Identifies(url) => Urls!Normalize(url') = Urls!Normalize(url)
<1>1. ASSUME Urls!Become([url EXCEPT !.host.upper = ~@], "respelled")
      PROVE  /\ url' \in Urls!Url /\ step' = "respelled"
             /\ Urls!Identifies(url) => Urls!Normalize(url') = Urls!Normalize(url)
  BY <1>1, HostRespelled DEF Urls!Become
<1>2. ASSUME Urls!Become([url EXCEPT !.port = ":443"], "respelled")
      PROVE  /\ url' \in Urls!Url /\ step' = "respelled"
             /\ Urls!Identifies(url) => Urls!Normalize(url') = Urls!Normalize(url)
  BY <1>2, PortRespelled DEF Urls!Become
<1>3. ASSUME url.path # <<>> => ~Urls!IsEmpty(Urls!Last(url.path)),
             NEW s \in Segments, Urls!IsEmpty(s),
             Urls!Become([url EXCEPT !.path = Append(@, s)], "respelled")
      PROVE  /\ url' \in Urls!Url /\ step' = "respelled"
             /\ Urls!Identifies(url) => Urls!Normalize(url') = Urls!Normalize(url)
  BY <1>3, SlashAppended DEF Urls!Become
<1>4. ASSUME Urls!IsGithub(url.host), NEW i \in DOMAIN url.path,
             \/ Urls!Become([url EXCEPT !.path[i].upper = ~@], "respelled")
             \/ /\ i = 2 /\ url.path[i].gits = 0 /\ ~Urls!IsEmpty(url.path[i])
                /\ Urls!Become([url EXCEPT !.path[i].gits = 1], "respelled")
      PROVE  /\ url' \in Urls!Url /\ step' = "respelled"
             /\ Urls!Identifies(url) => Urls!Normalize(url') = Urls!Normalize(url)
  <2>. DEFINE s == url.path[i]
  <2>1. PICK x : /\ Urls!IsUrl(url') /\ step' = "respelled"
                 /\ url' = [url EXCEPT !.path = [url.path EXCEPT ![i] = x]]
                 /\ \/ x = [s EXCEPT !.upper = ~@]
                    \/ x = [s EXCEPT !.gits = 1] /\ s.gits = 0 /\ ~Urls!IsEmpty(s) /\ i = 2
    <3>1. CASE Urls!Become([url EXCEPT !.path[i].upper = ~@], "respelled")
      <4>. DEFINE y == [s EXCEPT !.upper = ~@]
      <4>1. Urls!IsUrl(url') /\ step' = "respelled" /\ url' = [url EXCEPT !.path = [url.path EXCEPT ![i] = y]]
        BY <3>1 DEF Urls!Become
      <4>. QED  BY <4>1
    <3>2. CASE /\ i = 2 /\ url.path[i].gits = 0 /\ ~Urls!IsEmpty(url.path[i])
               /\ Urls!Become([url EXCEPT !.path[i].gits = 1], "respelled")
      <4>. DEFINE y == [s EXCEPT !.gits = 1]
      <4>1. Urls!IsUrl(url') /\ step' = "respelled" /\ url' = [url EXCEPT !.path = [url.path EXCEPT ![i] = y]]
        BY <3>2 DEF Urls!Become
      <4>. QED  BY <3>2, <4>1
    <3>. QED  BY <1>4, <3>1, <3>2
  <2>. QED  BY <1>4, <2>1, GithubRespelled DEF With, OtherSpelling
<1>. QED  BY <1>1, <1>2, <1>3, <1>4 DEF Urls!Respell

-----------------------------------------------------------------------------
(* Other places.                                                           *)

\* What is different of two URLs of different identifiers.
OtherForm(u, t, v, r) ==
  \/ ~(Urls!IsGithub(v.host) <=> Urls!IsGithub(u.host))
  \/ ~Urls!IsGithub(u.host) /\ Urls!Lower(v.host) # Urls!Lower(u.host)
  \/ ~Urls!IsGithub(u.host) /\ r # t
  \/ Urls!IsGithub(u.host) /\ Len(r) # 2
  \/ Urls!IsGithub(u.host) /\ Urls!Lower(r[1]) # Urls!Lower(t[1])
  \/ Urls!IsGithub(u.host) /\ Urls!Repository(r[2]) # Urls!Repository(t[2])

\* Such URLs have different identifiers, or the other has none.
LEMMA OtherIdentity ==
  ASSUME NEW u, NEW v, Urls!Identifies(u),
         OtherForm(u, Urls!Trimmed(u.path), v, Urls!Trimmed(v.path))
  PROVE  Urls!Normalize(v) # Urls!Normalize(u)
<1>. DEFINE t == Urls!Trimmed(u.path)
            r == Urls!Trimmed(v.path)
<1>1. CASE ~Urls!Identifies(v)
  BY <1>1 DEF Urls!Identifies
<1>2. CASE Urls!Identifies(v)
  <2>1. /\ Urls!IsGithub(u.host) =>
              Urls!Normalize(u) = [namespace |-> "github",
                                   path |-> <<Urls!Lower(t[1]), Urls!Repository(t[2])>>]
        /\ ~Urls!IsGithub(u.host) =>
              Urls!Normalize(u)
                = [namespace |-> "url", host |-> Urls!Lower(u.host), path |-> t]
    BY IdentifiesIs
  <2>2. /\ Urls!IsGithub(v.host) =>
              /\ Len(r) = 2
              /\ Urls!Normalize(v) = [namespace |-> "github",
                                      path |-> <<Urls!Lower(r[1]), Urls!Repository(r[2])>>]
        /\ ~Urls!IsGithub(v.host) =>
              Urls!Normalize(v)
                = [namespace |-> "url", host |-> Urls!Lower(v.host), path |-> r]
    BY <1>2, IdentifiesIs
  <2>3. OtherForm(u, t, v, r)
    OBVIOUS
  <2>. HIDE DEF t, r
  <2>4. CASE ~(Urls!IsGithub(v.host) <=> Urls!IsGithub(u.host))
    <3>1. Urls!Normalize(u).namespace # Urls!Normalize(v).namespace
      <4>1. CASE Urls!IsGithub(u.host)
        <5>1. ~Urls!IsGithub(v.host)
          BY <2>4, <4>1 DEF Urls!IsGithub
        <5>. QED  BY <2>1, <2>2, <4>1, <5>1
      <4>2. CASE ~Urls!IsGithub(u.host)
        <5>1. Urls!IsGithub(v.host)
          BY <2>4, <4>2 DEF Urls!IsGithub
        <5>. QED  BY <2>1, <2>2, <4>2, <5>1
      <4>. QED  BY <4>1, <4>2
    <3>. QED  BY <3>1
  <2>5. CASE Urls!IsGithub(u.host) /\ Urls!IsGithub(v.host)
    <3>1. Urls!Lower(r[1]) # Urls!Lower(t[1]) \/ Urls!Repository(r[2]) # Urls!Repository(t[2])
      BY <2>2, <2>3, <2>5 DEF OtherForm
    <3>2. <<Urls!Lower(r[1]), Urls!Repository(r[2])>> # <<Urls!Lower(t[1]),
    Urls!Repository(t[2])>>
      BY <3>1
    <3>3. Urls!Normalize(u).path # Urls!Normalize(v).path
      BY <2>1, <2>2, <2>5, <3>2
    <3>. QED  BY <3>3
  <2>6. CASE ~Urls!IsGithub(u.host) /\ ~Urls!IsGithub(v.host)
    <3>1. Urls!Lower(v.host) # Urls!Lower(u.host) \/ r # t
      BY <2>3, <2>6 DEF OtherForm
    <3>2. \/ Urls!Normalize(u).path # Urls!Normalize(v).path
          \/ Urls!Normalize(u).host # Urls!Normalize(v).host
      BY <2>1, <2>2, <2>6, <3>1
    <3>. QED  BY <3>2
  <2>. QED  BY <2>4, <2>5, <2>6 DEF Urls!IsGithub
<1>. QED  BY <1>1, <1>2

\* Another host.
LEMMA HostMoved ==
  ASSUME NEW u \in Urls!Url, NEW h \in Hosts, h.name # u.host.name,
         NEW v, v = [u EXCEPT !.host = h], Urls!IsUrl(v)
  PROVE  /\ v \in Urls!Url
         /\ Urls!Identifies(u) => Urls!Normalize(v) # Urls!Normalize(u)
<1>1. v = [host |-> h, port |-> u.port, path |-> u.path]
  BY UrlChanged
<1>2. v \in Urls!Url
  BY <1>1, UrlParts, BecomesUrl
<1>3. v.host = h /\ v.path = u.path /\ u.host \in Hosts
  BY <1>1, UrlParts
<1>4. Urls!Lower(h) # Urls!Lower(u.host)
  <2>1. Urls!Lower(h).name = h.name /\ Urls!Lower(u.host).name = u.host.name
    BY <1>3, LowerHost
  <2>. QED  BY <2>1
<1>5. ~(Urls!IsGithub(h) /\ Urls!IsGithub(u.host))
  BY DEF Urls!IsGithub
<1>6. OtherForm(u, Urls!Trimmed(u.path), v, Urls!Trimmed(v.path))
  BY <1>3, <1>4, <1>5 DEF OtherForm, Urls!IsGithub
<1>. QED  BY <1>2, <1>6, OtherIdentity

\* One segment more.
LEMMA PathLengthened ==
  ASSUME NEW u \in Urls!Url, NEW s \in Segments, ~Urls!IsEmpty(s),
         NEW v, v = [u EXCEPT !.path = Append(Urls!Trimmed(u.path), s)], Urls!IsUrl(v)
  PROVE  /\ v \in Urls!Url
         /\ Urls!Identifies(u) => Urls!Normalize(v) # Urls!Normalize(u)
<1>. DEFINE p == u.path
            t == Urls!Trimmed(p)
            q == Append(t, s)
<1>1. p \in Seq(Segments) /\ t \in Seq(Segments) /\ Len(t) \in Nat
  <2>1. p \in Seq(Segments)
    BY UrlParts
  <2>. HIDE DEF p
  <2>2. t \in Seq(Segments)
    BY <2>1, TrimmedIs
  <2>. QED  BY <2>1, <2>2
<1>2. /\ q \in Seq(Segments) /\ Len(q) = Len(t) + 1 /\ q[Len(t) + 1] = s
      /\ \A i \in 1 .. Len(t) : q[i] = t[i]
  BY <1>1, SegmentAppended
<1>3. v = [u EXCEPT !.path = q]
  OBVIOUS
<1>. HIDE DEF q
<1>4. v = [host |-> u.host, port |-> u.port, path |-> q]
  BY <1>3, UrlChanged
<1>5. v \in Urls!Url /\ v.host = u.host /\ v.path = q
  <2>1. v.host = u.host /\ v.path = q
    BY <1>4
  <2>2. q \in Seq(Segments)
    BY <1>2
  <2>. QED  BY <1>4, <2>1, <2>2, BecomesUrl
<1>. SUFFICES ASSUME Urls!Identifies(u) PROVE Urls!Normalize(v) # Urls!Normalize(u)
  BY <1>5
<1>6. InnerNamed(p)
  <2>1. Urls!Acceptable(u)
    BY IdentifiesIs
  <2>. QED  BY <2>1, AcceptableIs
<1>7. \A i \in 1 .. Len(t) : ~Urls!IsEmpty(t[i])
  <2>1. p \in Seq(Segments) /\ InnerNamed(p)
    BY <1>1, <1>6
  <2>. HIDE DEF p
  <2>. QED  BY <2>1, TrimmedIsNamed
<1>8. \A i \in 1 .. Len(q) : ~Urls!IsEmpty(q[i])
  <2>1. \A i \in 1 .. Len(q) : i \in 1 .. Len(t) \/ i = Len(t) + 1
    BY <1>1, <1>2
  <2>. QED  BY <1>2, <1>7, <2>1
<1>9. Urls!Trimmed(q) = q
  BY <1>2, <1>8, TrimmedAgain
<1>10. Urls!IsGithub(u.host) => Len(t) = 2
  BY IdentifiesIs
<1>11. q # t /\ (Urls!IsGithub(u.host) => Len(q) # 2)
  BY <1>1, <1>2, <1>10
<1>12. OtherForm(u, t, v, Urls!Trimmed(v.path))
  BY <1>5, <1>9, <1>11 DEF OtherForm
<1>. QED  BY <1>12, OtherIdentity

\* Another segment in the place of one.
LEMMA SegmentMoved ==
  ASSUME NEW u \in Urls!Url, NEW i \in DOMAIN u.path, NEW s, s = u.path[i], NEW x,
         ~Urls!IsEmpty(s) /\ ~Urls!IsEmpty(x) /\ x # s,
         Urls!IsGithub(u.host) => x.stem # s.stem,
         NEW v, v = With(u, i, x), Urls!IsUrl(v)
  PROVE  /\ v \in Urls!Url
         /\ Urls!Identifies(u) => Urls!Normalize(v) # Urls!Normalize(u)
<1>. DEFINE p == u.path
            t == Urls!Trimmed(p)
<1>1. /\ i \in 1 .. Len(u.path) /\ s \in Segments /\ x \in Segments
      /\ \E q : /\ Replaced(u.path, i, x, q)
                /\ v = [host |-> u.host, port |-> u.port, path |-> q]
  BY SegmentBecomes DEF With
<1>2. PICK q : /\ Replaced(u.path, i, x, q)
               /\ v = [host |-> u.host, port |-> u.port, path |-> q]
  BY <1>1
<1>. DEFINE r == Urls!Trimmed(q)
<1>3. p \in Seq(Segments)
  BY UrlParts
<1>4. q \in Seq(Segments) /\ q[i] = x
  BY <1>1, <1>2 DEF Replaced
<1>5. v.host = u.host /\ v.path = q /\ v \in Urls!Url
  BY <1>2, <1>4, BecomesUrl
<1>. SUFFICES ASSUME Urls!Identifies(u) PROVE Urls!Normalize(v) # Urls!Normalize(u)
  BY <1>5
<1>6. InnerNamed(p)
  <2>1. Urls!Acceptable(u)
    BY IdentifiesIs
  <2>. QED  BY <2>1, AcceptableIs
<1>7. /\ i \in 1 .. Len(t) /\ Len(r) = Len(t)
      /\ t[i] = s /\ r[i] = x
  <2>1. /\ p \in Seq(Segments) /\ InnerNamed(p) /\ i \in 1 .. Len(p) /\ p[i] = s
        /\ Replaced(p, i, x, q)
    BY <1>1, <1>2, <1>3, <1>6
  <2>. HIDE DEF p
  <2>2. i \in 1 .. Len(t)
    BY <2>1, TrimmedIsNamed
  <2>3. /\ Len(r) = Len(t)
        /\ \A j \in 1 .. Len(t) : t[j] = p[j] /\ r[j] = q[j]
    BY <1>1, <2>1, SegmentReplaced
  <2>. QED  BY <1>4, <2>1, <2>2, <2>3
<1>8. r # t
  BY <1>7
<1>9. Urls!IsGithub(u.host) =>
        \/ Urls!Lower(r[1]) # Urls!Lower(t[1])
        \/ Urls!Repository(r[2]) # Urls!Repository(t[2])
  <2>. SUFFICES ASSUME Urls!IsGithub(u.host)
                PROVE  \/ Urls!Lower(r[1]) # Urls!Lower(t[1])
                       \/ Urls!Repository(r[2]) # Urls!Repository(t[2])
    OBVIOUS
  <2>1. Len(t) = 2
    BY IdentifiesIs
  <2>2. /\ Urls!Lower(x).stem = x.stem /\ Urls!Lower(s).stem = s.stem
        /\ Urls!Repository(x).stem = x.stem /\ Urls!Repository(s).stem = s.stem
    BY <1>1, LowerName
  <2>3. i = 1 \/ i = 2
    BY <1>7, <2>1
  <2>. QED  BY <1>7, <2>2, <2>3
<1>10. OtherForm(u, t, v, Urls!Trimmed(v.path))
  BY <1>5, <1>8, <1>9 DEF OtherForm
<1>. QED  BY <1>10, OtherIdentity

\* A segment in another case, outside GitHub.
OtherCase(s, x) == x = [s EXCEPT !.upper = ~@]

\* It is another place.
LEMMA CaseMoved ==
  ASSUME NEW u \in Urls!Url, ~Urls!IsGithub(u.host), NEW i \in DOMAIN u.path,
         NEW s, s = u.path[i], NEW x, OtherCase(s, x),
         NEW v, v = With(u, i, x), Urls!IsUrl(v)
  PROVE  /\ v \in Urls!Url
         /\ Urls!Identifies(u) => Urls!Normalize(v) # Urls!Normalize(u)
<1>1. s \in Segments /\ x \in Segments
  BY SegmentBecomes DEF With
<1>2. Urls!IsEmpty(x) <=> Urls!IsEmpty(s)
  BY <1>1, SegmentParts DEF OtherCase
<1>3. x.upper # s.upper
  BY <1>1, SegmentSpellings DEF OtherCase
<1>4. ~Urls!IsEmpty(s)
  BY <1>1, <1>2, <1>3, UrlTexts
<1>. QED  BY <1>2, <1>3, <1>4, SegmentMoved

\* Whatever is moved has another identity.
LEMMA MovedIsOther ==
  ASSUME url \in Urls!Url, Urls!Move
  PROVE  /\ url' \in Urls!Url /\ step' = "moved"
         /\ Urls!Identifies(url) => Urls!Normalize(url') # Urls!Normalize(url)
<1>1. ASSUME ~Urls!IsGithub(url.host), NEW i \in DOMAIN url.path,
             Urls!Become([url EXCEPT !.path[i].upper = ~@], "moved")
      PROVE  /\ url' \in Urls!Url /\ step' = "moved"
             /\ Urls!Identifies(url) => Urls!Normalize(url') # Urls!Normalize(url)
  <2>. DEFINE s == url.path[i]
              x == [s EXCEPT !.upper = ~@]
  <2>1. Urls!IsUrl(url') /\ step' = "moved" /\ url' = [url EXCEPT !.path = [url.path EXCEPT ![i] = x]]
    BY <1>1 DEF Urls!Become
  <2>2. url' = With(url, i, x) /\ OtherCase(s, x)
    BY <2>1 DEF With, OtherCase
  <2>. QED  BY <1>1, <2>1, <2>2, CaseMoved
<1>2. ASSUME NEW i \in DOMAIN url.path, NEW s \in Segments,
             ~Urls!IsEmpty(url.path[i]), ~Urls!IsEmpty(s), s.stem # url.path[i].stem,
             Urls!Become([url EXCEPT !.path[i] = s], "moved")
      PROVE  /\ url' \in Urls!Url /\ step' = "moved"
             /\ Urls!Identifies(url) => Urls!Normalize(url') # Urls!Normalize(url)
  <2>1. Urls!IsUrl(url') /\ step' = "moved" /\ url' = [url EXCEPT !.path = [url.path EXCEPT ![i] = s]]
    BY <1>2 DEF Urls!Become
  <2>2. url' = With(url, i, s) /\ s # url.path[i]
    BY <1>2, <2>1 DEF With
  <2>. QED  BY <1>2, <2>1, <2>2, SegmentMoved
<1>3. ASSUME NEW s \in Segments, ~Urls!IsEmpty(s),
             Urls!Become([url EXCEPT !.path = Append(Urls!Trimmed(@), s)], "moved")
      PROVE  /\ url' \in Urls!Url /\ step' = "moved"
             /\ Urls!Identifies(url) => Urls!Normalize(url') # Urls!Normalize(url)
  BY <1>3, PathLengthened DEF Urls!Become
<1>4. ASSUME NEW h \in Hosts, h.name # url.host.name,
             Urls!Become([url EXCEPT !.host = h], "moved")
      PROVE  /\ url' \in Urls!Url /\ step' = "moved"
             /\ Urls!Identifies(url) => Urls!Normalize(url') # Urls!Normalize(url)
  BY <1>4, HostMoved DEF Urls!Become
<1>. QED  BY <1>1, <1>2, <1>3, <1>4 DEF Urls!Move

\* A step of the URL keeps it one, and its identity exactly when it means the same.
LEMMA UrlStep ==
  ASSUME url \in Urls!Url, Urls!Next
  PROVE  url' \in Urls!Url /\ step' \in {"respelled", "moved"} /\ Urls!SameIdentityIfSamePlace
<1>1. CASE Urls!Respell
  <2>1. /\ url' \in Urls!Url /\ step' = "respelled"
        /\ Urls!Identifies(url) => Urls!Normalize(url') = Urls!Normalize(url)
    BY <1>1, RespelledIsSame
  <2>. QED  BY <2>1 DEF Urls!SameIdentityIfSamePlace
<1>2. CASE Urls!Move
  <2>1. /\ url' \in Urls!Url /\ step' = "moved"
        /\ Urls!Identifies(url) => Urls!Normalize(url') # Urls!Normalize(url)
    BY <1>2, MovedIsOther
  <2>. QED  BY <2>1 DEF Urls!SameIdentityIfSamePlace
<1>. QED  BY <1>1, <1>2 DEF Urls!Next

-----------------------------------------------------------------------------
(* Types.                                                                  *)

\* Names of the values of a URL: not empty, and in lower case on GitHub.
LEMMA ValueNames ==
  ASSUME NEW s \in Segments
  PROVE  /\ Urls!Lower(s).upper = FALSE /\ Urls!Repository(s).upper = FALSE
         /\ Urls!IsEmpty(Urls!Lower(s)) <=> Urls!IsEmpty(s)
         /\ Urls!IsDots(Urls!Lower(s)) <=> Urls!IsDots(s)
         /\ Urls!Lower(s).glued = s.glued /\ Urls!Repository(s).glued = s.glued
         /\ Urls!Lower(Urls!Lower(s)) = Urls!Lower(s)
         /\ Urls!Lower(Urls!Repository(s)) = Urls!Repository(s)
<1>. DEFINE no == FALSE
            n == IF s.gits > 0 THEN s.gits - 1 ELSE 0
            low == Urls!Lower(s)
            repo == Urls!Repository(s)
<1>1. /\ low = [stem |-> s.stem, upper |-> no, gits |-> s.gits, glued |-> s.glued]
      /\ repo = [stem |-> s.stem, upper |-> no, gits |-> n, glued |-> s.glued]
  BY LowerName
<1>2. ASSUME NEW k, NEW a, NEW b, NEW g, NEW c, NEW e,
             k = [stem |-> a, upper |-> b, gits |-> g, glued |-> c]
      PROVE  [k EXCEPT !.upper = e] = [stem |-> a, upper |-> e, gits |-> g, glued |-> c]
  BY <1>2
<1>3. Urls!Lower(low) = [low EXCEPT !.upper = no] /\ Urls!Lower(repo) = [repo EXCEPT !.upper = no]
  BY DEF Urls!Lower
<1>4. no = FALSE
  OBVIOUS
<1>. HIDE DEF no, n, low, repo
<1>5. [low EXCEPT !.upper = no] = low /\ [repo EXCEPT !.upper = no] = repo
  BY <1>1, <1>2
<1>6. /\ low.upper = no /\ repo.upper = no
      /\ low.stem = s.stem /\ low.gits = s.gits /\ low.glued = s.glued /\ repo.glued = s.glued
  BY <1>1
<1>7. (Urls!IsEmpty(low) <=> Urls!IsEmpty(s)) /\ (Urls!IsDots(low) <=> Urls!IsDots(s))
  BY <1>6 DEF Urls!IsEmpty, Urls!IsDots
<1>. QED  BY <1>3, <1>4, <1>5, <1>6, <1>7 DEF low, repo

\* The type of the URL and of its identifier.
LEMMA UrlTypes ==
  ASSUME url \in Urls!Url, step \in {"respelled", "moved"}
  PROVE  Urls!TypeOK
<1>. DEFINE t == Urls!Trimmed(url.path)
            id == Urls!Normalize(url)
<1>1. url.path \in Seq(Segments) /\ url.host \in Hosts /\ url.port \in Ports
      /\ Len(url.path) <= MaxPath
  BY PathBound, UrlParts
<1>2. Urls!IsUrl(url)
  BY <1>1 DEF Urls!IsUrl, Urls!Range
<1>3. ASSUME Urls!Identifies(url)
      PROVE  /\ \A i \in DOMAIN id.path : ~Urls!IsEmpty(id.path[i])
             /\ \/ /\ id.namespace = "github" /\ Len(id.path) = 2
                   /\ ~id.path[1].upper /\ ~id.path[2].upper
                \/ /\ id.namespace = "url" /\ ~id.host.upper /\ id.host.glued # "."
  <2>1. Urls!Acceptable(url)
    BY <1>3, IdentifiesIs
  <2>2. InnerNamed(url.path) /\ url.host.glued # "."
    BY <2>1, AcceptableIs
  <2>3. /\ t \in Seq(Segments)
        /\ \A i \in 1 .. Len(t) : ~Urls!IsEmpty(t[i])
    BY <1>1, <2>2, TrimmedIs, TrimmedIsNamed
  <2>4. CASE Urls!IsGithub(url.host)
    <3>. DEFINE a == Urls!Lower(t[1])
                b == Urls!Repository(t[2])
    <3>1. /\ Len(t) = 2 /\ ~Urls!IsEmpty(b)
          /\ id = [namespace |-> "github", path |-> <<a, b>>]
      BY <1>3, <2>4, IdentifiesIs
    <3>2. t[1] \in Segments /\ t[2] \in Segments /\ ~Urls!IsEmpty(t[1])
      BY <2>3, <3>1
    <3>. HIDE DEF t, id
    <3>3. ~a.upper /\ ~b.upper /\ ~Urls!IsEmpty(a)
      BY <3>2, ValueNames
    <3>. HIDE DEF a, b
    <3>4. id.path = <<a, b>> /\ id.namespace = "github"
      BY <3>1
    <3>5. /\ Len(id.path) = 2 /\ id.path[1] = a /\ id.path[2] = b
          /\ \A i \in DOMAIN id.path : id.path[i] = a \/ id.path[i] = b
      BY <3>4
    <3>. QED  BY <3>1, <3>3, <3>4, <3>5
  <2>5. CASE ~Urls!IsGithub(url.host)
    <3>. DEFINE h == Urls!Lower(url.host)
                no == FALSE
    <3>1. id = [namespace |-> "url", host |-> h, path |-> t]
      BY <1>3, <2>5, IdentifiesIs
    <3>2. h = [name |-> url.host.name, upper |-> no, glued |-> url.host.glued]
      BY <1>1, LowerHost
    <3>3. no = FALSE
      OBVIOUS
    <3>. HIDE DEF h, t, id, no
    <3>4. h.upper = no /\ h.glued # "."
      BY <2>2, <3>2
    <3>5. id.namespace = "url" /\ id.host = h /\ id.path = t
      BY <3>1
    <3>6. DOMAIN t = 1 .. Len(t)
      BY <2>3
    <3>. QED  BY <2>3, <3>3, <3>4, <3>5, <3>6
  <2>. QED  BY <2>4, <2>5
<1>. QED  BY <1>2, <1>3 DEF Urls!TypeOK

-----------------------------------------------------------------------------
(* The Python function.                                                    *)

\* What the Python function keeps of a path, up to the last segment that is not
\* empty, is the path without its final slash.
LEMMA GreatestIs ==
  ASSUME NEW S \in SUBSET Nat, NEW m \in S, \A i \in S : i <= m
  PROVE  Urls!Max(S) = m
<1>1. Urls!Max(S) = CHOOSE x \in S : \A y \in S : x >= y
  BY DEF Urls!Max
<1>2. \E x \in S : \A y \in S : x >= y
  OBVIOUS
<1>. DEFINE k == CHOOSE x \in S : \A y \in S : x >= y
<1>3. k \in S /\ \A y \in S : k >= y
  BY <1>2
<1>. HIDE DEF k
<1>4. k = m
  BY <1>3
<1>. QED  BY <1>1, <1>4 DEF k

\* So the function keeps what is left without the final slash.
LEMMA KeptIsTrimmed ==
  ASSUME NEW p \in Seq(Segments), InnerNamed(p)
  PROVE  SubSeq(p, 1, Urls!Max({0} \cup {i \in DOMAIN p : ~Urls!IsEmpty(p[i])}))
           = Urls!Trimmed(p)
<1>. DEFINE named == {0} \cup {i \in DOMAIN p : ~Urls!IsEmpty(p[i])}
            last == IF p # <<>> /\ Urls!IsEmpty(p[Len(p)]) THEN Len(p) - 1 ELSE Len(p)
<1>1. Len(p) \in Nat /\ DOMAIN p = 1 .. Len(p) /\ (p # <<>> <=> Len(p) # 0)
  OBVIOUS
<1>2. named \in SUBSET Nat /\ last \in named /\ \A i \in named : i <= last
  <2>. DEFINE n == Len(p)
              Named(i) == ~Urls!IsEmpty(p[i])
  <2>1. n \in Nat /\ \A i \in 1 .. n - 1 : Named(i)
    BY <1>1 DEF InnerNamed
  <2>2. last = IF n # 0 /\ ~Named(n) THEN n - 1 ELSE n
    BY <1>1
  <2>3. named = {0} \cup {i \in 1 .. n : Named(i)}
    BY <1>1
  <2>. HIDE DEF n, Named, last, named
  <2>4. last \in Nat /\ (last = 0 \/ (last \in 1 .. n /\ Named(last)))
    BY <2>1, <2>2
  <2>5. \A i \in 1 .. n : Named(i) => i <= last
    BY <2>1, <2>2
  <2>. QED  BY <2>1, <2>3, <2>4, <2>5
<1>3. Urls!Max(named) = last
  <2>. HIDE DEF named, last
  <2>. QED  BY <1>2, GreatestIs
<1>4. SubSeq(p, 1, last) = Urls!Trimmed(p)
  <2>1. CASE p # <<>> /\ Urls!IsEmpty(p[Len(p)])
    BY <2>1 DEF Urls!Trimmed, Urls!Last, Urls!Front
  <2>2. CASE ~(p # <<>> /\ Urls!IsEmpty(p[Len(p)]))
    <3>1. last = Len(p) /\ Urls!Trimmed(p) = p
      BY <2>2 DEF Urls!Trimmed, Urls!Last
    <3>2. SubSeq(p, 1, Len(p)) = p
      BY SubSeqFull
    <3>. QED  BY <3>1, <3>2
  <2>. QED  BY <2>1, <2>2
<1>. QED  BY <1>3, <1>4

\* The name that the Python function takes from a repository.
LEMMA ReferenceName ==
  ASSUME NEW s \in Segments
  PROVE  (IF Urls!Lower(s).gits = 0 THEN Urls!Lower(s)
          ELSE [Urls!Lower(s) EXCEPT !.gits = @ - 1]) = Urls!Repository(s)
<1>. DEFINE low == Urls!Lower(s)
            no == FALSE
            n == IF s.gits > 0 THEN s.gits - 1 ELSE 0
            m == low.gits - 1
<1>1. /\ low = [stem |-> s.stem, upper |-> no, gits |-> s.gits, glued |-> s.glued]
      /\ Urls!Repository(s) = [stem |-> s.stem, upper |-> no, gits |-> n, glued |-> s.glued]
  BY LowerName
<1>2. ASSUME NEW k, NEW a, NEW b, NEW g, NEW c, NEW e,
             k = [stem |-> a, upper |-> b, gits |-> g, glued |-> c]
      PROVE  [k EXCEPT !.gits = e] = [stem |-> a, upper |-> b, gits |-> e, glued |-> c]
  BY <1>2
<1>3. [low EXCEPT !.gits = @ - 1] = [low EXCEPT !.gits = m]
  OBVIOUS
<1>4. s.gits \in Nat
  BY UrlTexts
<1>. HIDE DEF low, no
<1>5. low.gits = s.gits
  BY <1>1
<1>6. low.gits = 0 => n = s.gits
  BY <1>4, <1>5
<1>7. low.gits # 0 => n = m
  BY <1>4, <1>5
<1>. HIDE DEF n, m
<1>8. CASE low.gits = 0
  BY <1>1, <1>6, <1>8 DEF low
<1>9. CASE low.gits # 0
  <2>1. [low EXCEPT !.gits = m] = Urls!Repository(s)
    BY <1>1, <1>2, <1>7, <1>9
  <2>. QED  BY <1>3, <1>9, <2>1 DEF low
<1>. QED  BY <1>8, <1>9

\* On the forms that the code refuses and the Python function accepts, the code
\* identifies nothing.
LEMMA OnlyReferenceIsRefused ==
  ASSUME url \in Urls!Url, Urls!OnlyReference(url)
  PROVE  ~Urls!Identifies(url)
<1>1. url.path \in Seq(Segments) /\ DOMAIN url.path = 1 .. Len(url.path)
  BY UrlParts
<1>2. CASE url.path # <<>> /\ Urls!Last(url.path).glued \in Urls!Bare
  <2>1. Len(url.path) \in DOMAIN url.path
    BY <1>1, <1>2
  <2>2. Urls!Last(url.path).glued \in Urls!PathGlued(url)
    BY <1>1, <2>1 DEF Urls!PathGlued, Urls!Last
  <2>3. ~Urls!Acceptable(url)
    BY <1>2, <2>2 DEF Urls!Acceptable, Urls!Marks
  <2>. QED  BY <2>3 DEF Urls!Identifies, Urls!Normalize
<1>3. CASE "@" \in Urls!PathGlued(url)
  <2>1. "@" \in Urls!Glued(url)
    BY <1>3 DEF Urls!PathGlued, Urls!Glued
  <2>2. ~Urls!Acceptable(url)
    BY <2>1 DEF Urls!Acceptable
  <2>. QED  BY <2>2 DEF Urls!Identifies, Urls!Normalize
<1>4. CASE url.port \in {":", ":443?"} \/ url.host.glued = "["
  <2>1. ~Urls!Acceptable(url)
    BY <1>4 DEF Urls!Acceptable
  <2>. QED  BY <2>1 DEF Urls!Identifies, Urls!Normalize
<1>. QED  BY <1>2, <1>3, <1>4 DEF Urls!OnlyReference

\* Off the named forms the tests of the two functions are the same.
LEMMA RefusesIs ==
  ASSUME NEW u \in Urls!Url, ~Urls!OnlyReference(u), ~Urls!OnlyPort(u)
  PROVE  /\ Urls!PathOf(u.path) = u.path
         /\ u.host.glued \in {"", ".", "@"}
         /\ Urls!Refuses(u, u.path) <=> ~Urls!Acceptable(u)
<1>1. u.path \in Seq(Segments) /\ DOMAIN u.path = 1 .. Len(u.path) /\ u.host \in Hosts
  BY UrlParts
<1>2. u.host.glued \in {"", ".", "@"}
  <2>1. u.host.glued \in {"", ".", "?", "#", "?x", "#x", "@", "["}
    BY <1>1, UrlTexts DEF Attached
  <2>. QED  BY <2>1 DEF Urls!OnlyReference, Urls!OnlyPort, Urls!Marks, Urls!Bare
<1>3. u.path # <<>> => Urls!Last(u.path).glued \notin {"?", "#"}
  BY DEF Urls!OnlyReference, Urls!Bare
<1>4. Urls!PathOf(u.path) = u.path
  BY <1>3 DEF Urls!PathOf, Urls!Bare
<1>5. \A i \in 1 .. Len(u.path) : u.path[i].glued # "@"
  BY <1>1 DEF Urls!PathGlued, Urls!OnlyReference
<1>. DEFINE D == \E i \in 1 .. Len(u.path) : Urls!IsDots(u.path[i])
            E == \E i \in 1 .. Len(u.path) - 1 : Urls!IsEmpty(u.path[i])
            Q == \E i \in 1 .. Len(u.path) : u.path[i].glued \in {"?", "#", "?x", "#x"}
            C == \E i \in 1 .. Len(u.path) : u.path[i].glued = "%"
<1>6. Urls!HasQuery(u) <=> Q
  <2>1. Urls!Glued(u) \cap {"?x", "#x"} # {}
          <=> \E i \in 1 .. Len(u.path) : u.path[i].glued \in {"?x", "#x"}
    BY <1>1, <1>2 DEF Urls!Glued
  <2>2. u.host.glued \notin Urls!Bare /\ u.port # ":443?"
    BY <1>2 DEF Urls!Bare, Urls!OnlyReference
  <2>3. (\E i \in 1 .. Len(u.path) - 1 : u.path[i].glued \in {"?", "#"})
          <=> \E i \in 1 .. Len(u.path) : u.path[i].glued \in {"?", "#"}
    <3>1. ASSUME NEW i \in 1 .. Len(u.path), u.path[i].glued \in {"?", "#"}
          PROVE  i \in 1 .. Len(u.path) - 1
      <4>1. u.path # <<>> /\ Len(u.path) \in Nat
        BY <1>1, <3>1
      <4>2. i # Len(u.path)
        BY <1>3, <3>1, <4>1 DEF Urls!Last
      <4>. QED  BY <3>1, <4>1, <4>2
    <3>2. 1 .. Len(u.path) - 1 \subseteq 1 .. Len(u.path)
      BY <1>1
    <3>. QED  BY <3>1, <3>2
  <2>. QED  BY <2>1, <2>2, <2>3 DEF Urls!HasQuery, Urls!Bare
<1>7. "%" \in Urls!PathGlued(u) <=> C
  BY <1>1 DEF Urls!PathGlued
<1>8. Urls!Refuses(u, u.path)
        <=> \/ Q \/ C \/ u.host.name = "" \/ u.host.glued \in {"@", "."}
            \/ u.port \notin {"", ":443"} \/ D \/ E
  <2>1. u.port \notin {":", ":443?", ":+443"}
    BY DEF Urls!OnlyReference, Urls!OnlyPort
  <2>. HIDE DEF Q, C
  <2>. QED  BY <1>1, <1>6, <1>7, <2>1 DEF Urls!Refuses
<1>9. Urls!Acceptable(u)
        <=> /\ u.host.glued \notin {"@", "."} /\ u.port \in {"", ":443"}
            /\ u.host.name # "" \/ u.host.glued # ""
            /\ ~E /\ ~Q /\ ~C /\ ~D
  <2>1. u.port # ":+443"
    BY DEF Urls!OnlyPort
  <2>. QED  BY <1>2, <1>5, <2>1, AcceptableIs DEF InnerNamed
<1>10. Urls!Refuses(u, u.path) <=> ~Urls!Acceptable(u)
  <2>. HIDE DEF D, E, Q, C
  <2>. QED  BY <1>2, <1>8, <1>9
<1>. QED  BY <1>2, <1>4, <1>10

\* A host is GitHub's whatever its case.
LEMMA GithubHost ==
  ASSUME NEW h \in Hosts
  PROVE  Urls!Lower(h) = Urls!Github <=> Urls!IsGithub(h)
<1>. DEFINE no == FALSE
            a == h.name
            b == h.glued
            low == Urls!Lower(h)
<1>1. low = [name |-> a, upper |-> no, glued |-> b]
  BY LowerHost
<1>2. Urls!Github = [name |-> "github.com", upper |-> no, glued |-> ""]
  BY DEF Urls!Github
<1>3. Urls!IsGithub(h) <=> a = "github.com" /\ b = ""
  BY DEF Urls!IsGithub
<1>. HIDE DEF no, a, b, low
<1>4. low = Urls!Github <=> a = "github.com" /\ b = ""
  BY <1>1, <1>2
<1>. QED  BY <1>3, <1>4 DEF low

\* The port and the Python function agree, off the named forms.
LEMMA ReferenceAgrees ==
  ASSUME url \in Urls!Url
  PROVE  Urls!AnswersAsReference
<1>. SUFFICES ASSUME ~Urls!OnlyReference(url), ~Urls!OnlyPort(url)
              PROVE  Urls!Normalize(url) = Urls!ReferenceNormalize(url)
  BY OnlyReferenceIsRefused DEF Urls!AnswersAsReference
<1>. DEFINE t == Urls!Trimmed(url.path)
            kept == SubSeq(url.path, 1,
                           Urls!Max({0} \cup {i \in DOMAIN url.path : ~Urls!IsEmpty(url.path[i])}))
            low == Urls!Lower(url.host)
            NameOf(repo) == IF repo.gits = 0 THEN repo ELSE [repo EXCEPT !.gits = @ - 1]
            Value(h, k) ==
              IF h # Urls!Github THEN [namespace |-> "url", host |-> h, path |-> k]
              ELSE IF Len(k) # 2 THEN None
              ELSE IF Urls!IsEmpty(NameOf(Urls!Lower(k[2]))) THEN None
              ELSE [namespace |-> "github",
                    path |-> <<Urls!Lower(k[1]), NameOf(Urls!Lower(k[2]))>>]
<1>1. Urls!Refuses(url, url.path) <=> ~Urls!Acceptable(url)
  BY RefusesIs
<1>2. Urls!ReferenceNormalize(url)
        = IF ~Urls!Acceptable(url) THEN None
          ELSE Urls!ReferenceValue(Urls!HostOf(url.host), url.path)
  BY <1>1, RefusesIs DEF Urls!ReferenceNormalize
<1>3. CASE ~Urls!Acceptable(url)
  BY <1>2, <1>3 DEF Urls!Normalize
<1>4. CASE Urls!Acceptable(url)
  <2>1. url.path \in Seq(Segments) /\ url.host \in Hosts
    BY UrlParts
  <2>2. InnerNamed(url.path) /\ url.host.glued \notin {"@", ".", "["}
    BY <1>4, AcceptableIs
  <2>3. kept = t
    BY <2>1, <2>2, KeptIsTrimmed
  <2>4. t \in Seq(Segments)
    BY <2>1, TrimmedIs
  <2>5. Urls!HostOf(url.host) = low
    <3>1. url.host.glued = ""
      BY <2>2, RefusesIs
    <3>2. low = [name |-> url.host.name, upper |-> FALSE, glued |-> url.host.glued]
      BY <2>1, LowerHost
    <3>3. ASSUME NEW k, NEW n, NEW b, NEW c, k = [name |-> n, upper |-> b, glued |-> c]
          PROVE  [k EXCEPT !.glued = c] = k
      BY <3>3
    <3>. HIDE DEF low
    <3>4. [low EXCEPT !.glued = ""] = low
      BY <3>1, <3>2, <3>3
    <3>. QED  BY <3>4 DEF Urls!HostOf, low
  <2>6. Urls!ReferenceNormalize(url) = Value(low, t)
    <3>1. Urls!ReferenceValue(Urls!HostOf(url.host), url.path)
            = Value(Urls!HostOf(url.host), kept)
      BY DEF Urls!ReferenceValue
    <3>. HIDE DEF Value, kept, t, low
    <3>. QED  BY <1>2, <1>4, <2>3, <2>5, <3>1
  <2>7. Urls!Normalize(url)
          = IF Urls!IsGithub(url.host) THEN Urls!GithubValue(t)
            ELSE [namespace |-> "url", host |-> low, path |-> t]
    BY <1>4 DEF Urls!Normalize, Urls!GeneralValue, Urls!ValueHost
  <2>8. low = Urls!Github <=> Urls!IsGithub(url.host)
    BY <2>1, GithubHost
  <2>9. CASE ~Urls!IsGithub(url.host)
    <3>1. Value(low, t) = [namespace |-> "url", host |-> low, path |-> t]
      BY <2>8, <2>9
    <3>. QED  BY <2>6, <2>7, <2>9, <3>1
  <2>10. CASE Urls!IsGithub(url.host)
    <3>. DEFINE name == NameOf(Urls!Lower(t[2]))
    <3>1. Value(low, t) = IF Len(t) # 2 THEN None
                     ELSE IF Urls!IsEmpty(name) THEN None
                     ELSE [namespace |-> "github", path |-> <<Urls!Lower(t[1]), name>>]
      BY <2>8, <2>10
    <3>2. Len(t) = 2 => name = Urls!Repository(t[2])
      <4>. SUFFICES ASSUME Len(t) = 2 PROVE name = Urls!Repository(t[2])
        OBVIOUS
      <4>1. t[2] \in Segments
        BY <2>4
      <4>. QED  BY <4>1, ReferenceName
    <3>. HIDE DEF t, name, Value, low
    <3>. QED  BY <2>6, <2>7, <2>10, <3>1, <3>2 DEF Urls!GithubValue
  <2>. QED  BY <2>9, <2>10
<1>. QED  BY <1>3, <1>4

-----------------------------------------------------------------------------
(* Canonical URLs.                                                         *)

\* A path and another part that pass the tests.
PathPasses(p) ==
  \A i \in 1 .. Len(p) : /\ ~Urls!IsEmpty(p[i]) /\ ~Urls!IsDots(p[i])
                         /\ p[i].glued \notin {"@", "?", "#", "?x", "#x", "%"}
HostPasses(c) ==
  /\ c.host.glued \notin {"@", ".", "["} /\ (c.host.name # "" \/ c.host.glued # "")
  /\ c.port = ""

\* Such a path has no final slash.
LEMMA PassesAsItIs ==
  ASSUME NEW S, NEW p \in Seq(S), PathPasses(p)
  PROVE  Urls!Trimmed(p) = p
<1>1. p # <<>> => Len(p) \in 1 .. Len(p)
  OBVIOUS
<1>2. p # <<>> => ~Urls!IsEmpty(p[Len(p)])
  BY <1>1 DEF PathPasses
<1>. QED  BY <1>2 DEF Urls!Trimmed, Urls!Last

\* Identifiers and their canonical URLs, whose parts may be spelled in a way that no
\* URL of the instance is.
LEMMA CanonicalAccepted ==
  ASSUME NEW S, NEW c, c.path \in Seq(S), HostPasses(c), PathPasses(c.path)
  PROVE  Urls!Acceptable(c) /\ Urls!Trimmed(c.path) = c.path
<1>1. DOMAIN c.path = 1 .. Len(c.path) /\ Len(c.path) \in Nat
  OBVIOUS
<1>2. /\ c.host.glued \notin {"@", ".", "["} /\ (c.host.name # "" \/ c.host.glued # "")
      /\ c.port \in {"", ":443", ":+443"}
  BY DEF HostPasses
<1>3. \A i \in DOMAIN c.path : /\ ~Urls!IsEmpty(c.path[i]) /\ ~Urls!IsDots(c.path[i])
                               /\ c.path[i].glued \notin {"@", "?", "#", "?x", "#x", "%"}
  BY <1>1 DEF PathPasses
<1>4. "@" \notin Urls!Glued(c) /\ Urls!PathGlued(c) \cap {"?", "#", "?x", "#x", "%"} = {}
  BY <1>2, <1>3 DEF Urls!Glued, Urls!PathGlued
<1>5. \A i \in 1 .. Len(c.path) - 1 : i \in DOMAIN c.path
  BY <1>1
<1>6. Urls!Acceptable(c)
  BY <1>2, <1>3, <1>4, <1>5 DEF Urls!Acceptable, Urls!Marks, Urls!Bare
<1>7. Urls!Trimmed(c.path) = c.path
  BY PassesAsItIs
<1>. QED  BY <1>6, <1>7

\* The host and the names of an identifier are spelled canonically.
LEMMA LowerHostAgain ==
  ASSUME NEW h \in Hosts
  PROVE  /\ Urls!Lower(Urls!Lower(h)) = Urls!Lower(h)
         /\ Urls!Lower(h).name = h.name /\ Urls!Lower(h).glued = h.glued
<1>. DEFINE low == Urls!Lower(h)
            no == FALSE
<1>1. low = [name |-> h.name, upper |-> no, glued |-> h.glued]
  BY LowerHost
<1>2. Urls!Lower(low) = [low EXCEPT !.upper = no]
  BY DEF Urls!Lower
<1>. HIDE DEF low, no
<1>3. [low EXCEPT !.upper = no] = low /\ low.name = h.name /\ low.glued = h.glued
  BY <1>1
<1>. QED  BY <1>2, <1>3 DEF low

\* A plain repository stays as it is when it is normalised again.
LEMMA PlainRepository ==
  ASSUME NEW s \in Segments, ~Urls!IsDots(s), s.glued \notin {"@", "?", "#", "?x", "#x", "%"},
         Urls!IsPlain(s)
  PROVE  /\ Urls!Repository(Urls!Repository(s)) = Urls!Repository(s)
         /\ ~Urls!IsDots(Urls!Repository(s))
<1>. DEFINE repo == Urls!Repository(s)
            no == FALSE
            none == 0
            n == IF s.gits > 0 THEN s.gits - 1 ELSE 0
<1>1. s.gits \in Nat /\ s.gits < 2 /\ s.glued = ""
  BY UrlTexts DEF Urls!IsPlain, Characters
<1>2. (s.gits = 0 \/ s.gits = 1) /\ n = none
  <2>. DEFINE g == s.gits
  <2>1. g \in Nat /\ g < 2
    BY <1>1
  <2>. HIDE DEF g
  <2>2. (g = 0 \/ g = 1) /\ (IF g > 0 THEN g - 1 ELSE 0) = 0
    BY <2>1
  <2>. QED  BY <2>2 DEF g
<1>3. repo = [stem |-> s.stem, upper |-> no, gits |-> n, glued |-> s.glued]
  BY LowerName
<1>4. Urls!Lower(repo) = repo
  BY ValueNames
<1>5. Urls!Repository(repo) = [repo EXCEPT !.gits = IF @ > 0 THEN @ - 1 ELSE 0]
  BY <1>4 DEF Urls!Repository
<1>6. s.stem \notin {".", ".."}
  <2>1. s.gits = 0 => s.stem \notin {".", ".."}
    BY <1>1 DEF Urls!IsDots
  <2>2. s.gits = 1 => s.stem \notin {".", ".."}
    BY DEF Urls!IsPlain
  <2>. QED  BY <1>2, <2>1, <2>2
<1>. HIDE DEF repo, no, n
<1>7. repo.gits = none /\ repo.stem = s.stem
  BY <1>2, <1>3
<1>8. (IF repo.gits > 0 THEN repo.gits - 1 ELSE 0) = none
  BY <1>7
<1>9. [repo EXCEPT !.gits = IF @ > 0 THEN @ - 1 ELSE 0] = [repo EXCEPT !.gits = none]
  BY <1>8
<1>. HIDE DEF none
<1>10. [repo EXCEPT !.gits = none] = repo
  BY <1>2, <1>3
<1>11. ~Urls!IsDots(repo)
  BY <1>6, <1>7 DEF Urls!IsDots
<1>. QED  BY <1>5, <1>9, <1>10, <1>11 DEF repo

\* What is proposed for a plain URL is normal.
LEMMA ProposalIsNormal ==
  ASSUME url \in Urls!Url
  PROVE  Urls!PlainProposalIsCanonical
<1>. DEFINE t == Urls!Trimmed(url.path)
            id == Urls!Normalize(url)
            c == Urls!CanonicalUrl(id)
<1>. SUFFICES ASSUME Urls!Identifies(url),
                     Urls!IsGithub(url.host)
                       => \A i \in DOMAIN url.path : Urls!IsPlain(url.path[i])
              PROVE  Urls!Normalize(c) = id
  BY DEF Urls!PlainProposalIsCanonical
<1>1. /\ url.path \in Seq(Segments) /\ DOMAIN url.path = 1 .. Len(url.path)
      /\ url.host \in Hosts
  BY UrlParts
<1>2. Urls!Acceptable(url)
  BY IdentifiesIs
<1>3. /\ InnerNamed(url.path)
      /\ url.host.glued \notin {"@", ".", "["} /\ (url.host.name # "" \/ url.host.glued # "")
      /\ \A i \in 1 .. Len(url.path) :
           url.path[i].glued \notin {"@", "?", "#", "?x", "#x", "%"} /\ ~Urls!IsDots(url.path[i])
  BY <1>2, AcceptableIs
<1>4. /\ t \in Seq(Segments) /\ Len(t) <= Len(url.path) /\ Len(t) \in Nat
      /\ \A i \in 1 .. Len(t) : t[i] = url.path[i]
  <2>1. /\ t \in Seq(Segments)
        /\ Len(t) = IF url.path # <<>> /\ Urls!IsEmpty(url.path[Len(url.path)])
                    THEN Len(url.path) - 1 ELSE Len(url.path)
        /\ \A i \in 1 .. Len(t) : t[i] = url.path[i]
    BY <1>1, TrimmedIs
  <2>. QED  BY <1>1, <2>1
<1>5. \A i \in 1 .. Len(t) :
        /\ t[i] \in Segments /\ ~Urls!IsEmpty(t[i]) /\ ~Urls!IsDots(t[i])
        /\ t[i].glued \notin {"@", "?", "#", "?x", "#x", "%"}
        /\ Urls!IsGithub(url.host) => Urls!IsPlain(t[i])
  <2>1. \A i \in 1 .. Len(t) : ~Urls!IsEmpty(t[i])
    BY <1>1, <1>3, TrimmedIsNamed
  <2>2. \A i \in 1 .. Len(t) : t[i] \in Segments /\ t[i] = url.path[i] /\ i \in 1 .. Len(url.path)
    BY <1>1, <1>4
  <2>3. Urls!IsGithub(url.host) => \A i \in 1 .. Len(url.path) : Urls!IsPlain(url.path[i])
    BY <1>1
  <2>. HIDE DEF t
  <2>. QED  BY <1>3, <2>1, <2>2, <2>3
<1>6. CASE ~Urls!IsGithub(url.host)
  <2>. DEFINE h == Urls!Lower(url.host)
  <2>1. id = [namespace |-> "url", host |-> h, path |-> t]
    BY <1>6, IdentifiesIs
  <2>2. /\ Urls!Lower(h) = h /\ h.name = url.host.name /\ h.glued = url.host.glued
    BY <1>1, LowerHostAgain
  <2>. HIDE DEF h, t, id
  <2>3. c = [host |-> h, port |-> "", path |-> t]
    BY <2>1 DEF Urls!CanonicalUrl
  <2>. HIDE DEF c
  <2>4. Urls!Acceptable(c) /\ Urls!Trimmed(c.path) = t /\ c.host = h
    <3>1. c.host = h /\ c.port = "" /\ c.path = t
      BY <2>3
    <3>2. HostPasses(c)
      BY <1>3, <2>2, <3>1 DEF HostPasses
    <3>3. PathPasses(t) /\ t \in Seq(Segments)
      BY <1>4, <1>5 DEF PathPasses
    <3>. QED  BY <3>1, <3>2, <3>3, CanonicalAccepted
  <2>5. ~Urls!IsGithub(h)
    BY <1>6, <2>2 DEF Urls!IsGithub
  <2>. QED  BY <2>1, <2>2, <2>4, <2>5 DEF Urls!Normalize, Urls!GeneralValue, Urls!ValueHost
<1>7. CASE Urls!IsGithub(url.host)
  <2>. DEFINE a == Urls!Lower(t[1])
              b == Urls!Repository(t[2])
              p == <<a, b>>
  <2>1. /\ Len(t) = 2 /\ ~Urls!IsEmpty(b)
        /\ id = [namespace |-> "github", path |-> p]
    BY <1>7, IdentifiesIs
  <2>. HIDE DEF t, id
  <2>2. /\ t[1] \in Segments /\ ~Urls!IsEmpty(t[1]) /\ ~Urls!IsDots(t[1])
        /\ t[1].glued \notin {"@", "?", "#", "?x", "#x", "%"}
        /\ t[2] \in Segments /\ ~Urls!IsDots(t[2])
        /\ t[2].glued \notin {"@", "?", "#", "?x", "#x", "%"} /\ Urls!IsPlain(t[2])
    BY <1>5, <1>7, <2>1
  <2>3. /\ ~Urls!IsEmpty(a) /\ ~Urls!IsDots(a) /\ Urls!Lower(a) = a
        /\ a.glued = t[1].glued /\ b.glued = t[2].glued
    BY <2>2, ValueNames
  <2>4. Urls!Repository(b) = b /\ ~Urls!IsDots(b)
    BY <2>2, PlainRepository
  <2>5. c = [host |-> Urls!Github, port |-> "", path |-> p]
    BY <2>1 DEF Urls!CanonicalUrl
  <2>6. p \in Seq({a, b}) /\ Len(p) = 2 /\ p[1] = a /\ p[2] = b
    OBVIOUS
  <2>7. PathPasses(p)
    <3>. HIDE DEF a, b, p
    <3>1. \A i \in 1 .. Len(p) : p[i] = a \/ p[i] = b
      BY <2>6
    <3>. QED  BY <2>1, <2>2, <2>3, <2>4, <3>1 DEF PathPasses
  <2>8. Urls!Github.glued = "" /\ Urls!Github.name = "github.com"
    BY DEF Urls!Github
  <2>. HIDE DEF a, b, p, c
  <2>9. Urls!Acceptable(c) /\ Urls!Trimmed(c.path) = p /\ c.host = Urls!Github
    <3>1. c.host = Urls!Github /\ c.port = "" /\ c.path = p
      BY <2>5
    <3>2. HostPasses(c)
      BY <2>8, <3>1 DEF HostPasses
    <3>3. p \in Seq({a, b})
      BY <2>6
    <3>. QED  BY <2>7, <3>1, <3>2, <3>3, CanonicalAccepted
  <2>10. Urls!IsGithub(c.host)
    BY <2>8, <2>9 DEF Urls!IsGithub
  <2>11. Urls!Normalize(c) = Urls!GithubValue(p)
    BY <2>9, <2>10 DEF Urls!Normalize
  <2>12. Urls!GithubValue(p) = [namespace |-> "github", path |-> <<a, b>>]
    BY <2>1, <2>3, <2>4, <2>6 DEF Urls!GithubValue
  <2>. QED  BY <2>1, <2>11, <2>12 DEF p
<1>. QED  BY <1>6, <1>7

-----------------------------------------------------------------------------
(* The theorems.                                                           *)

\* While the URL is rewritten, it is one of the instance.
UrlsInv == part = "urls" => url \in Urls!Url /\ step \in {"respelled", "moved"}

\* The URLs of the instance are an invariant of the part.
LEMMA UrlsPart ==
  SpecPart => []UrlsInv
<1>1. InitPart => UrlsInv
  BY DEF InitPart, Urls!Init, UrlsInv
<1>2. UrlsInv /\ UNCHANGED <<part, urlsVars>> => UrlsInv'
  BY DEF UrlsInv, urlsVars, Urls!Url
<1>3. UrlsInv /\ NextPart => UrlsInv'
  <2>. SUFFICES ASSUME UrlsInv, NextPart PROVE UrlsInv'
    OBVIOUS
  <2>1. CASE part = "urls" /\ Urls!Next
    <3>1. url' \in Urls!Url /\ step' \in {"respelled", "moved"}
      BY <2>1, UrlStep DEF UrlsInv
    <3>. QED  BY <3>1 DEF UrlsInv, Urls!Url
  <2>2. CASE UNCHANGED <<part, urlsVars>>
    BY <1>2, <2>2
  <2>. QED  BY <2>1, <2>2 DEF NextPart
<1>4. UrlsInv /\ UNCHANGED <<part, vars, frozenVars, migratedVars, scoresVars, urlsVars>>
        => UrlsInv'
  BY <1>2
<1>. QED  BY <1>1, <1>3, <1>4, PTL DEF SpecPart

\* The port answers as the Python function on all but seven named forms, of which it
\* refuses five, and what it proposes for a plain URL is canonical: for any names, and paths of any length.
THEOREM FormsOfServices ==
  SpecPart => []NormalFormsAgree
<1>1. UrlsInv => NormalFormsAgree
  BY ReferenceAgrees, ProposalIsNormal DEF UrlsInv, NormalFormsAgree
<1>. QED  BY <1>1, UrlsPart, PTL

\* Two URLs, one rewritten from the other, have one identity exactly when they mean one
\* place.
THEOREM PlacesAreIdentities ==
  SpecPart => OneIdentityPerPlace
<1>1. UrlsInv /\ [NextPart]_<<part, vars, frozenVars, migratedVars, scoresVars, urlsVars>>
        => [part = "urls" => Urls!SameIdentityIfSamePlace]_urlsVars
  <2>. SUFFICES ASSUME UrlsInv, NextPart, part = "urls", ~UNCHANGED urlsVars
                PROVE  Urls!SameIdentityIfSamePlace
    BY DEF urlsVars
  <2>1. Urls!Next /\ url \in Urls!Url
    BY DEF NextPart, UrlsInv
  <2>. QED  BY <2>1, UrlStep
<1>. QED  BY <1>1, UrlsPart, PTL DEF SpecPart, OneIdentityPerPlace

==============================================================================
