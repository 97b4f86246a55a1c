----------------------------- MODULE Retrieval -----------------------------
(***************************************************************************)
(* Keyword search and the walk along explicit replies: search of           *)
(* keyword-search-service.ts and traverse of reply-graph-traversal-        *)
(* service.ts (src/retrieval/), with retrieval-authorization.ts and the    *)
(* queries of partner-mem-store.ts.  One runtime runs a call statement by  *)
(* statement, outside any transaction, while other runtimes store turns,   *)
(* answers, replies and access.  No turn, reply or access is ever removed; *)
(* rows of turn_fts are, when an answer replaces them.                     *)
(*                                                                         *)
(* Results stand in the order of Node: that of a query of one or two       *)
(* characters, whose score is constant.  The bm25 order of longer queries  *)
(* is taken to stay while a search runs, and the host's order of the turns *)
(* of one level is the order of Node too.                                  *)
(***************************************************************************)
EXTENDS Naturals, Sequences, FiniteSets

CONSTANTS
  Node,            \* turn ids, numbers
  Row,             \* row ids of turn_fts, numbers in the order of their turns
  NodeOf,          \* row -> the turn it is of
  Conversation,    \* conversations of the caller's harness
  Own,             \* the conversation of the call
  ConversationOf,  \* node -> its conversation, NULL in another harness
  ReplyEdge,       \* replies that may be recorded
  Hit,             \* <<node, side>>: the texts that match the query
  MaxDepth,        \* bound on max_depth
  MaxLimit,        \* bound on limit
  NULL

Side == {"question", "answer"}

ASSUME RetrievalAssumption ==
  /\ Node \subseteq Nat /\ IsFiniteSet(Node) /\ NULL \notin Node
  /\ Row \subseteq Nat /\ IsFiniteSet(Row) /\ NodeOf \in [Row -> Node]
  /\ \A n \in Node : \E r \in Row : NodeOf[r] = n
  /\ \A r, s \in Row : r <= s => NodeOf[r] <= NodeOf[s]
  /\ Own \in Conversation /\ NULL \notin Conversation
  /\ ConversationOf \in [Node -> Conversation \cup {NULL}]
  /\ ReplyEdge \subseteq [from : Node, fromSide : Side, to : Node, toSide : Side]
  /\ \A e \in ReplyEdge : e.from # e.to
  /\ Hit \subseteq Node \X Side
  /\ MaxDepth \in Nat \ {0} /\ MaxLimit \in Nat \ {0}

VARIABLES
  text,      \* node -> the sides whose text is stored; none: no such turn
  fts,       \* turn_fts: rows, each with the current texts of its turn
  edges,     \* explicit_reply_edges
  access,    \* conversations the caller's agent was given
  call,      \* the tool call that runs, or NULL
  status,    \* "idle", "search", "fetch", "walk" or "done"
  found,     \* results, in order
  page,      \* rows of the page read that have not been fetched
  pageSize,  \* rows the page had
  offset,
  shrunk,    \* ghost: an answer removed copies of a row while the search ran
  depth,     \* level of the walk
  frontier,  \* entries of the last level that have not been expanded
  current,   \* the entry that is expanded
  left,      \* its edges that have not been looked at
  next,      \* entries of the level to come
  visited,
  atStart    \* ghost: what the call could find when it began, by level

tables == <<text, fts, edges, access>>
searchVars == <<page, pageSize, offset, shrunk>>
walkVars == <<depth, frontier, current, left, next, visited>>
vars == <<tables, call, status, found, searchVars, walkVars, atStart>>

Stored == {n \in Node : text[n] # {}}

-----------------------------------------------------------------------------
(* Other runtimes.                                                         *)

\* The row the triggers of turn_nodes write.
OwnRow(n) == CHOOSE r \in Row : NodeOf[r] = n

RowsOf(n) == {r \in fts : NodeOf[r] = n}

InsertTurn(n, side) ==
  /\ n \notin Stored
  /\ text' = [text EXCEPT ![n] = {side}]
  /\ fts' = fts \cup {OwnRow(n)}
  /\ UNCHANGED <<edges, access, shrunk>>

\* turn_nodes_fts_answer_update deletes every row of the turn and inserts one.
AttachAnswer(n) ==
  /\ text[n] = {"question"}
  /\ text' = [text EXCEPT ![n] = Side]
  /\ fts' = (fts \ RowsOf(n)) \cup {OwnRow(n)}
  /\ shrunk' = (shrunk \/ (status \in {"search", "fetch"} /\ RowsOf(n) # {OwnRow(n)}))
  /\ UNCHANGED <<edges, access>>

\* Not the program: a second row of a stored turn.  Only searches read turn_fts
\* and a call begins without reading it, so the rows it finds there are taken to
\* come after it began.
CopyRow(r) ==
  /\ status \in {"search", "fetch"}
  /\ r \notin fts /\ NodeOf[r] \in Stored
  /\ fts' = fts \cup {r}
  /\ UNCHANGED <<text, edges, access, shrunk>>

RecordReply(e) ==
  /\ e \notin edges /\ e.fromSide \in text[e.from] /\ e.toSide \in text[e.to]
  /\ edges' = edges \cup {e}
  /\ UNCHANGED <<text, fts, access, shrunk>>

\* Another conversation; that of the call is given by the call.
GrantAccess(c) ==
  /\ c \notin access \cup {Own}
  /\ access' = access \cup {c}
  /\ UNCHANGED <<text, fts, edges, shrunk>>

WriterStep ==
  /\ \/ \E n \in Node, side \in Side : InsertTurn(n, side)
     \/ \E n \in Node : AttachAnswer(n)
     \/ \E r \in Row : CopyRow(r)
     \/ \E e \in ReplyEdge : RecordReply(e)
     \/ \E c \in Conversation : GrantAccess(c)
  /\ UNCHANGED <<call, status, found, page, pageSize, offset, walkVars, atStart>>

-----------------------------------------------------------------------------
(* What a call may read and find.                                          *)

\* canReadGraphNode: the own conversation, or one the agent was given.
CanRead(c, granted, n) ==
  \/ ConversationOf[n] = Own
  \/ c.agent /\ ConversationOf[n] \in granted

\* The scope clause of keywordSearch.
InScope(c, n) ==
  IF c.scope = "current_conversation" THEN ConversationOf[n] = Own
  ELSE ConversationOf[n] \in access

Matches(c) == {n \in Node : InScope(c, n) /\ \E side \in text[n] : <<n, side>> \in Hit}

\* keywordSearch joins turn_fts with turn_nodes: one match for every row.
MatchingRows(c) == {r \in fts : NodeOf[r] \in Matches(c)}

\* Mutant of NextNode: "both" follows replies only.
NextNodeReplies(c, n, e) ==
  IF c.direction = "parent" /\ e.from = n THEN e.to
  ELSE IF c.direction # "parent" /\ e.to = n THEN e.from ELSE NULL

NextNode(c, n, e) ==
  IF c.direction \in {"parent", "both"} /\ e.from = n THEN e.to
  ELSE IF c.direction \in {"replies", "both"} /\ e.to = n THEN e.from
  ELSE NULL

\* Reference: the turns within k replies of the start, for given replies and
\* access.
Neighbour(c, replies, granted, n, m) ==
  /\ CanRead(c, granted, m)
  /\ \E e \in replies :
       \/ c.direction # "replies" /\ e.from = n /\ e.to = m
       \/ c.direction # "parent" /\ e.to = n /\ e.from = m

Expand(c, replies, granted, S) ==
  S \cup {m \in Node : \E n \in S : Neighbour(c, replies, granted, n, m)}

Within(c, replies, granted) ==
  LET reach[k \in 0 .. MaxDepth] ==
        IF k = 0 THEN {c.start} ELSE Expand(c, replies, granted, reach[k - 1])
  IN reach

WithinNow == Within(call, edges, access)

-----------------------------------------------------------------------------
(* Keyword search.                                                         *)

SearchCall ==
  [tool : {"keyword"}, agent : BOOLEAN, scope : {"current_conversation", "agent_conversations"},
   limit : 1 .. MaxLimit]

\* invoke_tool gives the agent the conversation it calls from.
GrantOwn(c) ==
  /\ access' = IF c.agent THEN access \cup {Own} ELSE access
  /\ UNCHANGED <<text, fts, edges>>

\* The wide scope needs an agent.
BeginSearch(c) ==
  /\ status = "idle"
  /\ c.agent \/ c.scope = "current_conversation"
  /\ GrantOwn(c)
  /\ call' = c /\ status' = "search" /\ offset' = 0
  /\ UNCHANGED <<found, page, pageSize, shrunk, walkVars, atStart>>

\* The numbers of S, the smallest first.
Ascending(S) ==
  [i \in 1 .. Cardinality(S) |-> CHOOSE n \in S : Cardinality({m \in S : m < n}) = i - 1]

\* One statement: LIMIT limit + 1 OFFSET offset.
ReadPage ==
  /\ status = "search"
  /\ LET all == Ascending(MatchingRows(call))
         rows == SubSeq(all, offset + 1, IF offset + call.limit + 1 < Len(all)
                                         THEN offset + call.limit + 1 ELSE Len(all)) IN
       /\ page' = rows /\ pageSize' = Len(rows)
       /\ atStart' = IF offset = 0 THEN [k \in 0 .. MaxDepth |-> Matches(call)] ELSE atStart
  /\ status' = "fetch"
  /\ UNCHANGED <<tables, call, found, offset, shrunk, walkVars>>

Nodes(items) == {items[i].node : i \in DOMAIN items}

\* getTurnNode and the check of its conversation, once per row; a turn that was
\* found is not taken again.
Fetch ==
  /\ status = "fetch" /\ page # <<>>
  /\ LET n == NodeOf[Head(page)]
         allowed == IF call.scope = "current_conversation" THEN ConversationOf[n] = Own
                    ELSE CanRead(call, access, n) IN
       found' = IF allowed /\ n \notin Nodes(found)
                THEN Append(found, [node |-> n, text |-> text[n], path |-> <<>>]) ELSE found
  /\ page' = Tail(page)
  /\ UNCHANGED <<tables, call, status, pageSize, offset, shrunk, walkVars, atStart>>

\* Mutant of Exhausted: a short page is not the last.
ExhaustedNever == FALSE

Exhausted == pageSize < call.limit + 1

\* Mutant of ReadsOn: one page is taken for enough.
ReadsOnNever == FALSE

ReadsOn == Len(found) <= call.limit /\ ~Exhausted

EndPage ==
  /\ status = "fetch" /\ page = <<>>
  /\ offset' = offset + pageSize
  /\ status' = IF ReadsOn THEN "search" ELSE "done"
  /\ UNCHANGED <<tables, call, found, page, pageSize, shrunk, walkVars, atStart>>

-----------------------------------------------------------------------------
(* The walk.                                                               *)

WalkCall ==
  [tool : {"graph"}, agent : BOOLEAN, start : Node, direction : {"parent", "replies", "both"},
   depth : 1 .. MaxDepth, limit : 1 .. MaxLimit]

Entry(n, path) == [node |-> n, text |-> text[n], path |-> path]

BeginWalk(c) ==
  /\ status = "idle"
  /\ GrantOwn(c)
  /\ call' = c
  /\ IF c.start \in Stored /\ CanRead(c, access, c.start)
     THEN status' = "walk" /\ frontier' = <<Entry(c.start, <<>>)>> /\ visited' = {c.start}
     ELSE status' = "done" /\ UNCHANGED <<frontier, visited>>
  /\ depth' = 1
  /\ atStart' = IF status' = "walk" THEN Within(c, edges, access) ELSE [k \in 0 .. MaxDepth |-> {}]
  /\ UNCHANGED <<found, searchVars, current, left, next>>

\* listExplicitReplyEdges of the next entry; edge ids are random, so its edges
\* come in any order.
ListEdges ==
  /\ status = "walk" /\ left = {} /\ frontier # <<>>
  /\ current' = Head(frontier) /\ frontier' = Tail(frontier)
  /\ left' = {e \in edges : NextNode(call, Head(frontier).node, e) # NULL}
  /\ UNCHANGED <<tables, call, status, found, searchVars, depth, next, visited, atStart>>

\* Mutant of Valid: the edge is taken as it is.
ValidAlways(entry, e) == TRUE

\* isValidReplyEdge: both texts are in the rows that were read, of which that
\* of the current entry may be older than the edge.
Valid(entry, e) ==
  LET read(n) == IF n = entry.node THEN entry.text ELSE text[n]
  IN e.fromSide \in read(e.from) /\ e.toSide \in read(e.to)

\* Mutant of Known: turns of the levels before may be entered again.
KnownThisLevel == {entry.node : entry \in next}

Known == visited \cup {entry.node : entry \in next}

Examine(e) ==
  /\ status = "walk" /\ e \in left
  /\ left' = left \ {e}
  /\ LET target == NextNode(call, current.node, e) IN
       next' = IF /\ target \notin Known /\ target \in Stored
                  /\ CanRead(call, access, target) /\ Valid(current, e)
               THEN next \cup {Entry(target, Append(current.path, e))} ELSE next
  /\ UNCHANGED <<tables, call, status, found, searchVars, depth, frontier, current, visited, atStart>>

ByNode(entries) ==
  LET order == Ascending({entry.node : entry \in entries})
  IN [i \in DOMAIN order |-> CHOOSE entry \in entries : entry.node = order[i]]

EndLevel ==
  LET level == ByNode(next) IN
  /\ status = "walk" /\ left = {} /\ frontier = <<>>
  /\ found' = found \o level
  /\ visited' = visited \cup Nodes(level)
  /\ frontier' = level /\ next' = {}
  /\ IF depth = call.depth \/ level = <<>> THEN status' = "done" /\ UNCHANGED depth
     ELSE status' = "walk" /\ depth' = depth + 1
  /\ UNCHANGED <<tables, call, searchVars, current, left, atStart>>

-----------------------------------------------------------------------------
Init ==
  /\ text = [n \in Node |-> {}] /\ fts = {} /\ edges = {} /\ access = {}
  /\ call = NULL /\ status = "idle" /\ found = <<>>
  /\ page = <<>> /\ pageSize = 0 /\ offset = 0 /\ shrunk = FALSE
  /\ depth = 0 /\ frontier = <<>> /\ current = NULL /\ left = {} /\ next = {}
  /\ visited = {} /\ atStart = [k \in 0 .. MaxDepth |-> {}]

Work == ReadPage \/ Fetch \/ EndPage \/ ListEdges \/ (\E e \in left : Examine(e)) \/ EndLevel

Next ==
  \/ WriterStep
  \/ \E c \in SearchCall : BeginSearch(c)
  \/ \E c \in WalkCall : BeginWalk(c)
  \/ Work

\* A call runs on; the writers promise nothing.
Spec == Init /\ [][Next]_vars /\ WF_vars(Work)

-----------------------------------------------------------------------------
(* Properties.                                                             *)

Items == SubSeq(found, 1, IF Len(found) < call.limit THEN Len(found) ELSE call.limit)
Truncated == Len(found) > call.limit

\* A keyword search loses nothing between its statements: whatever rows are
\* added before its offset, and however many rows a turn has, each match of the
\* moment it began is among the items, or behind all of them in an answer that
\* says it is cut; an answer says so only when more than limit turns match.
\* Excepted are rows that an answer takes away while the search runs, which
\* move the later ones before the offset.
PagesMissNothing ==
  status = "done" /\ call.tool = "keyword" =>
    /\ Truncated => Cardinality(Matches(call)) > call.limit
    /\ shrunk \/ \A m \in atStart[0] \ Nodes(Items) :
                   Truncated /\ \A n \in Nodes(Items) : n < m

\* After each level the walk has found every turn that was within that many
\* replies when it began, and none that is not within them now: cycles,
\* parallel replies and turns stored meanwhile make it miss nothing and invent
\* nothing, at no distance.
WalkIsBounded ==
  status \in {"walk", "done"} /\ call # NULL /\ call.tool = "graph" /\ visited # {} =>
    LET level == IF status = "done" THEN call.depth ELSE depth - 1 IN
    /\ atStart[level] \subseteq visited
    /\ visited \subseteq WithinNow[level]

\* truncated of the walk means that items were cut off: without it, everything
\* that was there when the call began is in the items; with it, more than limit
\* are there.  The code's choice; docs/PRD.md asks for more, see below.
TruncationIsHonest ==
  status = "done" /\ call.tool = "graph" /\ visited # {} =>
    IF Truncated THEN Cardinality(WithinNow[call.depth] \ {call.start}) > call.limit
    ELSE atStart[call.depth] \ {call.start} \subseteq Nodes(Items)

\* docs/PRD.md:108 (2.7.10): truncated must be returned when the limit on the
\* number of returned turns is reached.  traverse sets it only beyond the limit.
TruncatedAtLimit ==
  status = "done" /\ call.tool = "graph" /\ Len(Items) = call.limit => Truncated

\* Every item comes once, with a path that is there: stored replies lead from
\* the start to it in the asked direction, through turns the caller may read,
\* and each text a reply names is shown by the item that carries it.
PathsAreReal ==
  \A i \in DOMAIN found :
    call.tool = "graph" =>
      LET path == found[i].path
          Shown(n, side) == \A j \in DOMAIN found : found[j].node = n => side \in found[j].text
      IN /\ Len(path) > 0
         /\ \A j \in DOMAIN found : found[j].node = found[i].node => j = i
         /\ \E on \in [0 .. Len(path) -> Node] :
              /\ on[0] = call.start /\ on[Len(path)] = found[i].node
              /\ \A k, l \in 0 .. Len(path) : on[k] = on[l] => k = l
              /\ \A k \in 1 .. Len(path) :
                   /\ on[k] = NextNode(call, on[k - 1], path[k]) /\ CanRead(call, access, on[k])
                   /\ path[k] \in edges
                   /\ Shown(path[k].from, path[k].fromSide) /\ Shown(path[k].to, path[k].toSide)

\* A call ends, though others go on storing turns and replies.
CallsEnd == status \in {"search", "fetch", "walk"} ~> status = "done"
=============================================================================
