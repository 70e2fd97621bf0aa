------------------------------- MODULE UrlDb -------------------------------
(***************************************************************************)
(* The URL and cookie database of content/urldb.c: for each host a tree of *)
(* path segments whose nodes hold cookies, with the domain cookies of the  *)
(* host at its root.  Fetches ask for the cookies of their URL and bring   *)
(* new ones, the user deletes cookies, and at the end of a session what    *)
(* persists is saved and loaded again.                                     *)
(*                                                                         *)
(* A host is the sequence of its labels, the top one first; a path is the  *)
(* sequence of its segments, the last one Empty for a directory.  All URLs *)
(* have one scheme and the default port, and no query or fragment.  The    *)
(* values of cookies and their Secure and HttpOnly flags are left out.     *)
(***************************************************************************)
EXTENDS Integers, Lists

CONSTANTS
  Site,       \* hosts of URLs
  UrlPath,    \* paths of URLs and cookies
  Name,       \* names of cookies
  Empty,      \* the empty segment, the last of a directory's path
  Segments,   \* path segments in the order of strcmp
  Longer,     \* the pairs of segments whose first begins with the second
  Expiry,     \* times at which cookies expire, -1 for the session's end
  MaxCookies, \* bound: headers that set a cookie
  MaxUrls,    \* bound: URLs that are fetched
  MaxTime     \* bound: the clock

Segment == Range(Segments)
Host    == UNION {Prefixes(h) \ {<<>>} : h \in Site}
Path    == UNION {Prefixes(p) : p \in UrlPath}
Node    == Site \X Path   \* a host of one label has no cookies

Place(s) == CHOOSE i \in DOMAIN Segments : Segments[i] = s

ASSUME UrlDbAssumption ==
  /\ Site \subseteq Seq(STRING)
  /\ \A h \in Site : \A p \in Prefixes(h) : Len(p) >= 2 <=> p \in Site
  /\ Segments \in Seq(STRING) /\ Empty \in Segment /\ IsInjective(Segments)
  /\ UrlPath \subseteq Seq(Segment) \ {<<>>} /\ <<Empty>> \in UrlPath
  /\ \A p \in UrlPath : Len(p) > 1 => Front(p) \in UrlPath
  /\ \A s \in Segment : <<s, s>> \in Longer /\ <<s, Empty>> \in Longer
  /\ \A s, t \in Segment : <<s, t>> \in Longer => Place(t) <= Place(s)
  /\ NULL \notin Host \cup UrlPath /\ Expiry \subseteq Int
  /\ MaxCookies \in Nat /\ MaxUrls \in Nat /\ MaxTime \in Nat \ {0}

Cookie == [domain : BOOLEAN, host : Site, path : UrlPath, name : Name,
           expires : Expiry]

VARIABLES
  children,   \* the segments below each node, in their order
  cookies,    \* the cookies of each node, the oldest first
  now,        \* the time
  jar,        \* history: the cookies there should be
  set,        \* count of cookies set
  fetched     \* count of URLs fetched

vars == <<children, cookies, now, jar, set, fetched>>

Init ==
  /\ children = [n \in Node |-> <<>>] /\ cookies = [n \in Node |-> <<>>]
  /\ now = 1 /\ jar = {} /\ set = 0 /\ fetched = 0

Expired(c) == c.expires # -1 /\ c.expires < now

Same(c, d) == /\ c.domain = d.domain /\ c.host = d.host
              /\ c.path = d.path /\ c.name = d.name

(* strncmp of a cookie's path with the path of a URL *)
Begins(path, with) ==
  LET n == Len(with) IN
  /\ n <= Len(path)
  /\ IsPrefix(Front(with), path)
  /\ <<path[n], with[n]>> \in Longer

-----------------------------------------------------------------------------
(* The tree of paths.                                                      *)

(* Seeded fault: the new segment goes to the end. *)
AppendSegment(segments, s) == Append(segments, s)

urldb_add_path_node(segments, s) ==
  LET i == SelectInSeq(segments, LAMBDA e : Place(e) > Place(s))
  IN  InsertAt(segments, IF i = 0 THEN Len(segments) + 1 ELSE i, s)

urldb_add_path(tree, h, path) ==
  [n \in Node |->
     IF n[1] = h /\ IsStrictPrefix(n[2], path)
        /\ path[Len(n[2]) + 1] \notin ToSet(tree[n])
     THEN urldb_add_path_node(tree[n], path[Len(n[2]) + 1])
     ELSE tree[n]]

(* Each segment wanted leads to the first child that begins with it. *)
Leads(below, wanted, s) ==
  LET i == SelectInSeq(below, LAMBDA e : <<e, wanted>> \in Longer)
  IN  i # 0 /\ s = below[i]

urldb_match_path(tree, h, path) ==
  LET found == {p \in Path :
                  /\ Len(p) = Len(path)
                  /\ \A i \in 1..Len(path) : Leads(tree[<<h, SubSeq(p, 1, i - 1)>>], path[i], p[i])}
  IN  IF found = {} THEN NULL ELSE CHOOSE p \in found : TRUE

-----------------------------------------------------------------------------
(* The cookies for a URL, list after list: those of its exact path, then   *)
(* from the path upwards those of each directory and those of the nodes    *)
(* passed, then those of the domains the host is in.  The URL itself is    *)
(* added first.                                                            *)

Unexpired(list) == Sublist(list, {c \in ToSet(list) : ~Expired(c)})

Matching(list, path) ==
  Sublist(list, {c \in ToSet(list) : ~Expired(c) /\ Begins(path, c.path)})

(* Those of a directory and those of the node of the same name. *)
Passed(tree, h, q, path) ==
  (IF Empty \in ToSet(tree[<<h, q>>])
   THEN Unexpired(cookies[<<h, Append(q, Empty)>>]) ELSE <<>>)
  \o (IF q = <<>> THEN <<>> ELSE Matching(cookies[<<h, q>>], path))

urldb_get_cookie(h, path) ==
  LET tree == urldb_add_path(children, h, path)
      p == urldb_match_path(tree, h, path)
      exact == IF Last(p) # Empty THEN Unexpired(cookies[<<h, p>>]) ELSE <<>>
      above == [i \in 1..Len(p) |->
                  Passed(tree, h, SubSeq(p, 1, Len(p) - i), path)]
      domains == [i \in 1..(Len(h) - 1) |->
                    Matching(cookies[<<SubSeq(h, 1, Len(h) - i + 1), <<>> >>], path)]
  IN  <<exact>> \o above \o domains

(* A fetch asks for its cookies, or a visited page is recorded. *)
urldb_add_url(h, path) ==
  /\ fetched < MaxUrls /\ fetched' = fetched + 1
  /\ children' = urldb_add_path(children, h, path)
  /\ UNCHANGED <<cookies, now, jar, set>>

-----------------------------------------------------------------------------
(* A cookie arrives.                                                       *)

(* The cookie a header makes: domain and path are NULL where it has none.  *)
(* By default the path is that of the URL without its leaf and its slash.  *)
urldb_parse_cookie(h, path, domain, for, name, expires) ==
  [domain |-> domain # NULL,
   host   |-> IF domain # NULL THEN domain ELSE h,
   path   |-> IF for # NULL THEN for
              ELSE IF Len(path) = 1 THEN <<Empty>> ELSE Front(path),
   name   |-> name, expires |-> expires]

Acceptable(c, h, path) ==
  Begins(path, c.path) /\ Len(c.host) >= 2 /\ IsPrefix(c.host, h)

Home(c) == <<c.host, IF c.domain THEN <<>> ELSE c.path>>

(* Seeded fault: a cookie there is already is not looked for. *)
InsertBehind(list, c) == Append(list, c)

urldb_insert_cookie(list, c) ==
  LET i == SelectInSeq(list, LAMBDA d : Same(c, d)) IN
  IF i = 0 THEN Append(list, c)
  ELSE IF Expired(c) THEN RemoveAt(list, i)
  ELSE ReplaceAt(list, i, c)

(* What the headers of a response for some URL can set. *)
Received ==
  UNION {LET made == {urldb_parse_cookie(h, path, domain, for, name, expires) :
                        domain \in Host \cup {NULL}, for \in UrlPath \cup {NULL},
                        name \in Name, expires \in Expiry}
         IN  {c \in made : Acceptable(c, h, path)} : h \in Site, path \in UrlPath}

urldb_set_cookie(c) ==
  /\ set < MaxCookies /\ set' = set + 1
  /\ children' = IF c.domain THEN children
                 ELSE urldb_add_path(children, c.host, c.path)
  /\ cookies' = [cookies EXCEPT ![Home(c)] = urldb_insert_cookie(@, c)]
  /\ jar' = {d \in jar : ~Same(c, d)} \cup (IF Expired(c) THEN {} ELSE {c})
  /\ UNCHANGED <<now, fetched>>

(* The user deletes a cookie. *)
urldb_delete_cookie(c) ==
  /\ \E i \in DOMAIN cookies[Home(c)] :
       /\ Same(cookies[Home(c)][i], c)
       /\ \A j \in 1..(i - 1) : ~Same(cookies[Home(c)][j], c)
       /\ cookies' = [cookies EXCEPT ![Home(c)] = RemoveAt(@, i)]
  /\ jar' = {d \in jar : ~Same(c, d)}
  /\ UNCHANGED <<children, now, set, fetched>>

-----------------------------------------------------------------------------
(* The end of a session and the start of the next.                         *)

Leaves ==
  {n \in Node : /\ n[2] # <<>> /\ children[n] = <<>>
                /\ Last(n[2]) \in ToSet(children[<<n[1], Front(n[2])>>])}

(* Only leaves are saved, and of those the ones visited not long ago.      *)
urldb_save == SUBSET Leaves

urldb_save_cookies(list) ==
  Sublist(list, {c \in ToSet(list) : c.expires # -1 /\ ~Expired(c)})

(* Loading adds the paths of the URLs saved, then those of the cookies it  *)
(* inserts: of the tree those nodes come back that lead to one of them.    *)
Restart ==
  LET saved == [n \in Node |-> urldb_save_cookies(cookies[n])]
      homes == {n \in Node : n[2] # <<>> /\ cookies[n] # <<>> /\ saved[n] # <<>>}
  IN  /\ \E kept \in urldb_save :
           LET back == UNION {{m[1]} \X Prefixes(m[2]) : m \in kept \cup homes}
           IN  children' = [n \in Node |->
                 Sublist(children[n], {s \in ToSet(children[n]) : <<n[1], Append(n[2], s)>> \in back})]
      /\ cookies' = saved
      /\ jar' = {c \in jar : c.expires # -1 /\ ~Expired(c)}
      /\ UNCHANGED <<now, set, fetched>>

Tick ==
  /\ now < MaxTime /\ now' = now + 1
  /\ UNCHANGED <<children, cookies, jar, set, fetched>>

-----------------------------------------------------------------------------
Next ==
  \/ \E h \in Site, path \in UrlPath : urldb_add_url(h, path)
  \/ \E c \in Received : urldb_set_cookie(c)
  \/ \E c \in UNION {ToSet(cookies[n]) : n \in Node} : urldb_delete_cookie(c)
  \/ Restart \/ Tick

Spec == Init /\ [][Next]_vars

-----------------------------------------------------------------------------
(* The type of the state (urldb.c:111-130, 161-209). *)
TypeOK ==
  /\ children \in [Node -> Seq(Segment)]
  /\ cookies \in [Node -> Seq(Cookie)]
  /\ now \in 1..MaxTime /\ jar \subseteq Cookie
  /\ set \in 0..MaxCookies /\ fetched \in 0..MaxUrls

Kept(h, p) == p = <<>> \/ Last(p) \in ToSet(children[<<h, Front(p)>>])

(* Every node is found by the path it was added for, though the search     *)
(* takes the first segment that begins with the one wanted and never turns *)
(* back (urldb.c:1939-1955): a segment stands before those that begin with *)
(* it, in whatever order URLs, cookies and saved entries were added.  And  *)
(* no cookie is left on a node that is not in the tree.                    *)
FindsUrls ==
  /\ TypeOK
  /\ \A h \in Site, p \in Path :
       LET there == \A q \in Prefixes(p) : Kept(h, q) IN
       /\ there /\ p # <<>> => urldb_match_path(children, h, p) = p
       /\ ~there => cookies[<<h, p>>] = <<>>

(* The rule: the exact path of a host, all below a directory or a path, or *)
(* for a domain cookie all hosts of the domain and paths that begin so.    *)
Applies(c, h, path) ==
  IF c.domain THEN IsPrefix(c.host, h) /\ Begins(path, c.path)
  ELSE LET dir == IF Last(c.path) = Empty THEN Front(c.path) ELSE c.path
       IN  c.host = h /\ (c.path = path \/ IsStrictPrefix(dir, path))

(* A directory the search passes as a node of the path, as / for //a, is   *)
(* asked for its cookies as that node and as the entry of the one above.   *)
Twice(c, path) ==
  ~c.domain /\ Last(c.path) = Empty /\ IsStrictPrefix(c.path, path)

(* Whatever was set, replaced, deleted, saved and loaded before, a fetch   *)
(* sends exactly the cookies that apply to its URL and have not expired,   *)
(* as they were last set: the tree is only where they are kept.  Each is   *)
(* sent once, but for those of a directory that is passed as a node: these *)
(* are sent twice, by two lists that follow each other (urldb.c:2400-2668).*)
SentIsRight ==
  \A h \in Site, path \in UrlPath :
    LET sent == urldb_get_cookie(h, path)
    IN  /\ \A i \in DOMAIN sent : IsInjective(sent[i])
        /\ \A i, j \in DOMAIN sent : i < j =>
             \A c \in ToSet(sent[i]) \cap ToSet(sent[j]) : Twice(c, path) /\ j = i + 1
        /\ UNION {ToSet(sent[i]) : i \in DOMAIN sent} = {c \in jar : Applies(c, h, path) /\ ~Expired(c)}
=============================================================================
