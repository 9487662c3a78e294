---------------------------- MODULE ResearchDesk ----------------------------
(***************************************************************************)
(* The pages of the research desk (src/industry_analysis/static): history,  *)
(* scope, candidate review, reviewed plan, owner acceptance and accepted    *)
(* result, in browser tabs over the API of DeskRecords.                     *)
(*                                                                         *)
(* A page is a path with a boundary.  It loads in one or more requests,     *)
(* lets its reader edit a form, and posts commands.  A command over HTTP is  *)
(* composed from reads, then written in a transaction of its own, then      *)
(* answered; it may get lost.  A tab may leave at any time: what it has     *)
(* sent goes on without it.  Others post commands, too; acceptances come    *)
(* from pages only.                                                        *)
(***************************************************************************)
EXTENDS DeskRecords

CONSTANTS Tab,        \* browser tabs
          Nobody,     \* the sender of a request whose page is gone
          Scopes,     \* the scopes readers choose
          Lookback,   \* how far back readers of the history look
          MaxCalls    \* bound on requests under way

ASSUME PageAssumption ==
    /\ Nobody \notin Tab /\ Lookback \in 0..4 /\ MaxCalls \in Nat
    /\ Scopes # {} /\ \A x \in Scopes : x.seeds \subseteq Company /\ x.map \in BOOLEAN

VARIABLES tabs,    \* per tab: its path, how much has loaded, links, and what the page keeps
          calls,   \* commands and previews under way
          handed   \* links clients of the API were answered with, and may hand on

vars == <<rows, tabs, calls, handed>>

NoView == [members |-> <<>>, pools |-> {}]
Nowhere == Path("none", 0, 0, 0)
AnyScope == CHOOSE x \in Scopes : TRUE

(* What each page keeps.                                                    *)
ScopeForm(context, scope) == [context |-> context, scope |-> scope]

ReviewForm == [no |-> 0, workflow |-> "none", allowed |-> FALSE, pools |-> {}, cards |-> {}]

AcceptanceForm(view, plan) == [view |-> view, plan |-> plan, preview |-> NoPreview]

Form(page) ==
    CASE page = "scope" -> ScopeForm(Nowhere, AnyScope)
      [] page = "review" -> ReviewForm
      [] page = "acceptance" -> AcceptanceForm(NoView, NoPlan)
      [] OTHER -> "none"

Page(path) == [path |-> path, by |-> "link", loaded |-> 0, links |-> {}, form |-> Form(path.page)]

On(t, page) == tabs[t].path.page = page
Url(t) == tabs[t].path

Failed == 9    \* "loaded" of a page that has given up

Call(t, kind, url) ==
    [tab |-> t, kind |-> kind, session |-> url.session, no |-> url.no, at |-> url.at, stage |-> "sent",
     scope |-> AnyScope, pools |-> {}, proposals |-> {}, version |-> 0,
     decided |-> {}, selected |-> {}, plan |-> NoPlan, shown |-> NoPreview, view |-> NoView]

Flying(t, kinds) == \E c \in calls : c.tab = t /\ c.kind \in kinds

Send(c) ==
    /\ Cardinality(calls) < MaxCalls
    /\ calls' = calls \union {c}
    /\ UNCHANGED <<rows, tabs, handed>>

Link(kind, path) == [kind |-> kind, path |-> path]

Keep(t, form) == tabs' = [tabs EXCEPT ![t].form = form]

Init ==
    /\ \E h \in Beginning : RowsInit(h)
    /\ tabs = [t \in Tab |-> Page(Path("history", 0, 0, now))]
    /\ calls = {}
    /\ handed = {IF c.state = "proposed" THEN Link("build", Path("review", c.session, c.bound, c.at))
                 ELSE Link("review", Path("result", c.session, c.bound, c.at)) : c \in cands}

---------------------------------------------------------------------------
(* Moving.  What a page has sent is nobody's when it leaves; a preview that   *)
(* nobody awaits changes nothing.                                           *)

Orphan(c) == [c EXCEPT !.tab = Nobody]

Abandon(t, S) ==
    {c \in S : c.tab # t} \union {Orphan(c) : c \in {x \in S : x.tab = t /\ x.kind # "preview"}}

Visit(t, path) ==
    /\ tabs' = [tabs EXCEPT ![t] = Page(path)]
    /\ calls' = Abandon(t, calls)
    /\ UNCHANGED <<rows, handed>>

(* A reader may look back, as far as Lookback.                              *)
OpenHistory(t) == \E b \in (now - Lookback)..now : Visit(t, Path("history", 0, 0, b))

Follow(t) == \E p \in tabs[t].links : Visit(t, p)

OpenHanded(t) == \E h \in handed : Visit(t, h.path)

---------------------------------------------------------------------------
(* Loading.                                                                *)

Loaded(t, n, links, form) ==
    /\ tabs' = [tabs EXCEPT ![t].loaded = n, ![t].links = links, ![t].form = form]
    /\ UNCHANGED <<rows, calls, handed>>

GiveUp(t, form) == Loaded(t, Failed, {}, form)

NewScope == Path("scope", 0, 0, 0)

(* The history offers every listed session's continuation, and a new scope. *)
LoadHistory(t) ==
    /\ On(t, "history") /\ tabs[t].loaded = 0
    /\ Loaded(t, 1, {Continuation(r) : r \in Listing(Url(t).at)} \union {NewScope}, tabs[t].form)

(* Only a draft is edited; otherwise the form stays that of a new session.  *)
LoadScope(t) ==
    LET read == ReadRevision(Url(t).session, Url(t).no, Url(t).at)
    IN /\ On(t, "scope") /\ tabs[t].loaded = 0 /\ Url(t).no # 0
       /\ IF read.ok /\ read.body.workflow = "draft"
          THEN Loaded(t, 1, tabs[t].links, [tabs[t].form EXCEPT !.context = Url(t), !.scope = read.body.scope])
          ELSE GiveUp(t, tabs[t].form)

LoadSourceOptions(t) ==
    LET read == SourceOptions(Url(t).session, Url(t).no, Url(t).at)
        form == [ReviewForm EXCEPT !.no = read.body.no, !.workflow = read.body.workflow,
                                   !.allowed = read.body.allowed, !.pools = read.body.pools]
    IN /\ On(t, "review") /\ tabs[t].loaded = 0
       /\ IF ~read.ok THEN GiveUp(t, ReviewForm)
          ELSE IF ~read.body.latest THEN GiveUp(t, form)
          ELSE Loaded(t, 1, {}, form)

(* A universe that fails to load is shown as an empty one; one that is not   *)
(* empty hides what prepares and builds.                                   *)
LoadUniverse(t) ==
    LET read == ReadUniverse(Url(t).session, Url(t).no, Url(t).at)
    IN /\ On(t, "review") /\ tabs[t].loaded = 1
       /\ IF read.ok /\ read.body # {}
          THEN Loaded(t, 2, {}, [tabs[t].form EXCEPT !.workflow = "none", !.allowed = FALSE])
          ELSE Loaded(t, 3, {}, tabs[t].form)

LoadReviewView(t) ==
    LET read == ReviewView(Url(t).session, Url(t).no, Url(t).at)
    IN /\ On(t, "review") /\ tabs[t].loaded = 2
       /\ IF read.ok THEN Loaded(t, 3, {}, [tabs[t].form EXCEPT !.cards = {c.key : c \in read.body}])
          ELSE GiveUp(t, tabs[t].form)

(* A result with something selected and an owner context leads on to its    *)
(* acceptance, at the same boundary.                                       *)
LoadResult(t) ==
    LET read == ResultView(Url(t).session, Url(t).no, Url(t).at)
    IN /\ On(t, "result") /\ tabs[t].loaded = 0
       /\ IF ~read.ok THEN GiveUp(t, "none")
          ELSE IF Legacy(read.body) \/ read.body.selected = {} THEN Loaded(t, 1, {}, "none")
          ELSE Loaded(t, 1, {[Url(t) EXCEPT !.page = "acceptance"]}, "none")

LoadAcceptance(t) ==
    LET read == AcceptanceView(Url(t).session, Url(t).no, Url(t).at)
    IN /\ On(t, "acceptance") /\ tabs[t].loaded = 0
       /\ IF read.ok THEN Loaded(t, 1, {}, AcceptanceForm(read.body, NoPlan))
          ELSE GiveUp(t, tabs[t].form)

LoadAccepted(t) ==
    /\ On(t, "accepted") /\ tabs[t].loaded = 0
    /\ Loaded(t, IF AcceptedView(Url(t).session, Url(t).no, Url(t).at).ok THEN 1 ELSE Failed, {}, "none")

Load(t) ==
    \/ LoadHistory(t) \/ LoadScope(t) \/ LoadSourceOptions(t) \/ LoadUniverse(t)
    \/ LoadReviewView(t) \/ LoadResult(t) \/ LoadAcceptance(t) \/ LoadAccepted(t)

---------------------------------------------------------------------------
(* What readers do on a page.                                              *)

EditScope(t) ==
    /\ On(t, "scope")
    /\ \E x \in Scopes \ {tabs[t].form.scope} :
           Keep(t, [tabs[t].form EXCEPT !.scope = x])
    /\ UNCHANGED <<rows, calls, handed>>

(* A scope may be saved while the page still loads the one it would edit;   *)
(* the check a reader has to make first writes nothing and is left out.     *)
SaveScope(t) ==
    /\ On(t, "scope") /\ ~Flying(t, {"save"})
    /\ Send([Call(t, "save", tabs[t].form.context) EXCEPT !.scope = tabs[t].form.scope])

Free(t) == On(t, "review") /\ ~Flying(t, {"prepare", "build", "review"})

Prepare(t) ==
    /\ Free(t) /\ tabs[t].form.workflow = "draft"
    /\ Send([Call(t, "prepare", Url(t)) EXCEPT !.no = tabs[t].form.no])

Build(t) ==
    /\ Free(t) /\ tabs[t].form.allowed
    /\ \E some \in SUBSET tabs[t].form.pools : Send([Call(t, "build", Url(t)) EXCEPT !.pools = some])

(* The page decides all of its cards, but knows plans of the first version   *)
(* only and sends no owner context.                                        *)
SubmitReview(t) ==
    /\ Free(t) /\ tabs[t].form.cards # {}
    /\ Send([Call(t, "review", Url(t)) EXCEPT !.version = 1, !.decided = tabs[t].form.cards])

Accepting(t) == On(t, "acceptance") /\ tabs[t].loaded = 1

BindingsOffered(members) ==
    {f \in [DOMAIN members -> UNION {members[k] : k \in DOMAIN members}] :
        \A k \in DOMAIN members : f[k] \in members[k]}

(* A pool with exactly the supported revisions is reused only when all of   *)
(* them are.                                                               *)
PoolsOffered(view, bindings) ==
    LET supported == {k \in DOMAIN bindings : bindings[k].status = "supported"}
    IN IF supported = {} THEN {NoPool}
       ELSE {NewPool} \union
            {p \in view.pools : p.op = "reuse" =>
                /\ \A k \in supported : bindings[k].op = "reuse"
                /\ p.members = Supported(bindings)}

PlansOffered(view) ==
    UNION {{[bindings |-> f, pool |-> p] : p \in PoolsOffered(view, f)} : f \in BindingsOffered(view.members)}

(* An edit invalidates the preview.                                        *)
EditPlan(t) ==
    /\ Accepting(t)
    /\ \E p \in PlansOffered(tabs[t].form.view) \ {tabs[t].form.plan} :
           Keep(t, AcceptanceForm(tabs[t].form.view, p))
    /\ UNCHANGED <<rows, calls, handed>>

Proposed(t, kind) ==
    [Call(t, kind, Url(t)) EXCEPT !.plan = tabs[t].form.plan, !.view = tabs[t].form.view]

SubmitPreview(t) ==
    /\ Accepting(t) /\ tabs[t].form.plan # NoPlan /\ ~Flying(t, {"preview"})
    /\ Send(Proposed(t, "preview"))

(* A commit collects the form anew and names the preview last shown, which   *)
(* has to have been ready.                                                 *)
Commit(t) ==
    /\ Accepting(t) /\ tabs[t].form.preview.ready /\ ~Flying(t, {"accept"})
    /\ Send([Proposed(t, "accept") EXCEPT !.shown = tabs[t].form.preview])

Act(t) ==
    \/ EditScope(t) \/ SaveScope(t)
    \/ Prepare(t) \/ Build(t) \/ SubmitReview(t)
    \/ EditPlan(t) \/ SubmitPreview(t) \/ Commit(t)

---------------------------------------------------------------------------
(* Serving.  An answer is dealt with as it is given: what happens between    *)
(* the two can as well happen before or after both.                         *)

Drop(c) == calls' = calls \ {c}

Composed(c) ==
    CASE c.kind = "build" -> ComposeBuild(c.session, c.no, c.at, c.no, c.pools)
      [] c.kind = "review" -> ComposeReview(c)
      [] c.kind \in {"accept", "preview"} -> ComposeAccept(c)

(* What cannot be composed is refused; the page keeps what it has.          *)
Compose(c) ==
    /\ c.stage = "sent" /\ c.kind \in {"build", "review", "accept"}
    /\ IF Composed(c).ok
       THEN calls' = (calls \ {c}) \union
                {[c EXCEPT !.stage = "composed",
                           !.proposals = IF c.kind = "build" THEN Composed(c).body ELSE {}]}
       ELSE Drop(c)
    /\ UNCHANGED <<rows, tabs, handed>>

(* A preview is composed and tried, and changes nothing.  It is shown even   *)
(* when the form was edited meanwhile.                                      *)
Preview(c) ==
    /\ c.kind = "preview" /\ Drop(c)
    /\ IF c.tab # Nobody /\ Composed(c).ok
       THEN tabs' = [tabs EXCEPT ![c.tab].form.preview = PreviewAnswer(c).body]
       ELSE UNCHANGED tabs
    /\ UNCHANGED <<rows, handed>>

Answer(c) ==
    CASE c.kind = "save" -> SaveAnswer(c)
      [] c.kind = "prepare" -> PrepareAnswer(c)
      [] c.kind = "build" -> BuildAnswer(c)
      [] c.kind = "review" -> ReviewAnswer(c)
      [] c.kind = "accept" -> AcceptAnswer(c)

Write(c) ==
    CASE c.kind = "save" -> SaveRows(c)
      [] c.kind = "prepare" -> PrepareRows(c)
      [] c.kind = "build" -> BuildRows(c)
      [] c.kind = "review" -> ReviewRows(c)
      [] c.kind = "accept" -> AcceptRows(c)

Ready(c) == c.stage = "composed" \/ (c.stage = "sent" /\ c.kind \in {"save", "prepare"})

(* A saved scope is edited further in place, or taken on to its candidates; *)
(* the other commands send the page on.                                     *)
Sent(c, p) ==
    IF c.kind = "save"
    THEN [tabs EXCEPT ![c.tab].form.context = p, ![c.tab].by = "save",
                      ![c.tab].links = {p, [p EXCEPT !.page = "review"]}]
    ELSE [tabs EXCEPT ![c.tab] = [Page(p) EXCEPT !.by = c.kind]]

Run(c) ==
    /\ Ready(c) /\ Room(c)
    /\ IF Answer(c).ok THEN Write(c) ELSE UNCHANGED rows
    /\ IF c.tab # Nobody /\ Answer(c).ok
       THEN /\ tabs' = Sent(c, Answer(c).body)
            /\ calls' = IF c.kind = "save" THEN calls \ {c} ELSE Abandon(c.tab, calls \ {c})
       ELSE Drop(c) /\ UNCHANGED tabs
    /\ UNCHANGED handed

(* A request is lost before it is written, or its answer is; the page        *)
(* stays as it is.                                                         *)
LoseRequest(c) ==
    /\ c.tab # Nobody /\ Drop(c)
    /\ UNCHANGED <<rows, tabs, handed>>

LoseAnswer(c) ==
    /\ c.tab # Nobody
    /\ Ready(c) /\ Room(c) /\ Answer(c).ok /\ Write(c) /\ Drop(c)
    /\ UNCHANGED <<tabs, handed>>

Serve(c) == Compose(c) \/ Preview(c) \/ Run(c) \/ LoseRequest(c) \/ LoseAnswer(c)

---------------------------------------------------------------------------
(* Others, whose commands are taken as one step each.                       *)

OthersCall(kind, s, n) == Call(Nobody, kind, Path("none", s, n, now))

Posts(c) ==
    /\ Room(c) /\ Answer(c).ok /\ Write(c)
    /\ handed' = handed \union
           (IF c.kind \in {"build", "review"} THEN {Link(c.kind, Answer(c).body)} ELSE {})
    /\ UNCHANGED <<tabs, calls>>

OthersSave(s) ==
    Posts([OthersCall("save", s, LatestNo(s)) EXCEPT !.scope = ScopeOf(s, LatestNo(s))])

OthersPrepare(s) ==
    /\ \E r \in Exact(s, LatestNo(s)) : r.workflow = "draft"
    /\ Posts(OthersCall("prepare", s, LatestNo(s)))

OthersBuild(s) ==
    \E chosen \in SUBSET ({Pooled} \ {{}}) :
        LET composed == ComposeBuild(s, LatestNo(s), now, LatestNo(s), chosen)
        IN composed.ok /\ Posts([OthersCall("build", s, LatestNo(s)) EXCEPT !.proposals = composed.body])

OthersReview(s) ==
    \E selected \in SUBSET Candidates(s) :
        LET c == [OthersCall("review", s, LatestNo(s)) EXCEPT !.version = 2, !.decided = Candidates(s),
                                                              !.selected = selected]
        IN selected # {} /\ ComposeReview(c).ok /\ Posts(c)

OthersAssess ==
    /\ \E at \in {now, now + 1} :
           \/ \E c \in Pooled, v \in Status : AssessRows(c, v, at)
           \/ \E p \in pools : PoolRows(p.id, at)
    /\ UNCHANGED <<tabs, calls, handed>>

Others ==
    \/ \E s \in Sessions : OthersSave(s) \/ OthersPrepare(s) \/ OthersBuild(s) \/ OthersReview(s)
    \/ OthersAssess

Next ==
    \/ \E t \in Tab : OpenHistory(t) \/ Follow(t) \/ OpenHanded(t) \/ Load(t) \/ Act(t)
    \/ \E c \in calls : Serve(c)
    \/ Others

Spec == Init /\ [][Next]_vars

---------------------------------------------------------------------------
TypeOK ==
    /\ \A t \in Tab : tabs[t].loaded \in {0, 1, 2, 3, Failed}
    /\ \A c \in calls : c.tab \in Tab \union {Nobody} /\ c.stage \in {"sent", "composed"}
    /\ now \in 0..MaxTime

(* A commit writes what its reader has confirmed: a plan that a preview of   *)
(* this very page answered as ready, to the letter, and on the rows that the *)
(* preview found.  Nothing that others recorded between the preview and the  *)
(* commit, and no edit, answer or page of before, gets in.  A company or a   *)
(* pool that is reused may have got later revisions: a reuse names its own   *)
(* (owner_acceptance.js, renderPreview and commit; _preview_or_commit).      *)
CommitWasShown ==
    [][\A o \in outputs' \ outputs :
           /\ o.shown.ready /\ o.shown.plan = o.plan
           /\ o.shown.of = Path("acceptance", o.session, o.reviewed, o.seen)
           /\ o.shown.found = Underlying(o.plan)]_vars

(* Where an answered command sends its caller opens, whatever was written in   *)
(* between, and shows what the command wrote: all of a build, all of a       *)
(* review, all of an acceptance.                                           *)
Reopens(kind, p) ==
    CASE kind = "save" -> ReadRevision(p.session, p.no, p.at).ok
      [] kind = "prepare" -> SourceOptions(p.session, p.no, p.at).ok
      [] kind = "build" ->
             /\ ReadUniverse(p.session, p.no, p.at).ok
             /\ {c \in cands : c.session = p.session /\ c.bound = p.no} \subseteq Universe(p.session, p.no, p.at)
      [] kind = "review" -> ResultView(p.session, p.no, p.at).ok
      [] kind = "accept" -> AcceptedView(p.session, p.no, p.at).ok

AnswersReopen ==
    /\ \A h \in handed : Reopens(h.kind, h.path)
    /\ \A t \in Tab : tabs[t].by # "link" =>
        Reopens(tabs[t].by, IF tabs[t].by = "save" THEN tabs[t].form.context ELSE Url(t))

(* An acceptance appends to what its page's boundary could show: no revision *)
(* of the company or the pool that the reader could not see comes in        *)
(* between, and a company is created only where none was known at all.       *)
NothingUnseen ==
    /\ \A o \in outputs : \A k \in DOMAIN o.plan.bindings :
           LET i == o.plan.bindings[k]
           IN i.op # "reuse" => \A x \in OwnersOf(k.company) : x.no <= i.no => Visible(x, o.seen)
    /\ \A o \in outputs : o.plan.pool.op = "append" =>
           \A p \in pools : p.id = o.plan.pool.id /\ p.no <= o.plan.pool.no => Visible(p, o.seen)
    /\ \A x, y \in owners : x.company = y.company /\ x.no = y.no => x = y
    /\ \A p, q \in pools : p.id = q.id /\ p.no = q.no => p = q

(* The history opens the results it lists.                                  *)
HistoryOpens ==
    \A t \in Tab : On(t, "history") =>
        \A p \in tabs[t].links : p.page = "result" => ResultView(p.session, p.no, p.at).ok
=============================================================================
