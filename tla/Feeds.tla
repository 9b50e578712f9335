------------------------------- MODULE Feeds -------------------------------
(***************************************************************************)
(* FeedCoordinator: an actor that fetches feeds on request, reads their    *)
(* items, and keeps a history of what it has dealt with.  A document is    *)
(* the sequence of its XML events.                                         *)
(***************************************************************************)
EXTENDS Naturals, SequencesExt, Selection

CONSTANTS
    FeedIds,        \* configured feeds
    FilterOf,       \* [FeedIds -> sequence of rules, or Unreadable]
    Documents,      \* documents a fetch may bring: sequences of events
    Unreadable,     \* a filter or a document that cannot be parsed
    MaxFetches,     \* bound
    Nothing

ASSUME FeedAssumption == \A d \in Documents : IsList(d)

VARIABLES
    feed_infos,     \* [FeedIds -> [status, fresh, item_count, error]]; fresh: next_update
                    \* is set and lies ahead
    feed_history,   \* [<<feed, url>> -> FeedItemStatus]
    work,           \* feeds the command in hand has still to fetch
    fetches,
    handed_out      \* ghost: sequence of <<feed, url>> that were accepted

feedVars == <<feed_infos, feed_history, work, fetches, handed_out>>
-----------------------------------------------------------------------------
(* parse_feed: RSS and Atom items, by their local names.  An event is      *)
(* [kind : Start, Empty, Text, End; tag; text; name], where text is the    *)
(* text or the attribute that counts and name that of a newznab attribute. *)
NewItem == [title |-> Nothing, url |-> Nothing, category |-> Nothing, size |-> 0,
            season |-> Nothing]
ItemTags == {"item", "entry"}

handle_newznab_attr(item, e) ==
    CASE e.name = "size" -> [item EXCEPT !.size = e.text]
      [] e.name = "season" -> [item EXCEPT !.season = e.text]
      [] OTHER -> item

InTag(p, e) ==
    IF e.kind = "Empty" THEN p ELSE [p EXCEPT !.state = "InItemTag", !.tag = e.tag, !.text = Nothing]

handle_open(p, e) ==
    CASE p.state = "Root" /\ e.tag \in ItemTags -> [p EXCEPT !.state = "InItem", !.current = NewItem]
      [] p.state = "InItem" /\ e.tag = "enclosure" /\ e.text # Nothing ->
            [p EXCEPT !.current.url = e.text]
      [] p.state = "InItem" /\ e.tag = "link" ->
            InTag(IF e.text # Nothing /\ p.current.url = Nothing
                  THEN [p EXCEPT !.current.url = e.text] ELSE p, e)
      [] p.state = "InItem" /\ e.tag = "attr" ->
            [p EXCEPT !.current = handle_newznab_attr(@, e)]
      [] p.state = "InItem" /\ e.tag \notin {"enclosure", "link", "attr"} -> InTag(p, e)
      [] OTHER -> p

(* The end of any element ends the tag that was open in the item.          *)
CloseTag(p) ==
    [p EXCEPT !.state = "InItem",
        !.current = CASE p.tag = "title" -> [@ EXCEPT !.title = p.text]
                      [] p.tag = "link" /\ @.url = Nothing -> [@ EXCEPT !.url = p.text]
                      [] p.tag = "category" -> [@ EXCEPT !.category = p.text]
                      [] OTHER -> @]

FeedEvent(p, e) ==
    CASE e.kind \in {"Start", "Empty"} -> handle_open(p, e)
      [] e.kind = "Text" /\ p.state = "InItemTag" -> [p EXCEPT !.text = e.text]
      [] e.kind = "End" /\ e.tag \in ItemTags ->
            [p EXCEPT !.state = "Root", !.current = Nothing,
                !.items = IF p.current = Nothing THEN @ ELSE Append(@, p.current)]
      [] e.kind = "End" /\ e.tag \notin ItemTags /\ p.state = "InItemTag" -> CloseTag(p)
      [] OTHER -> p

parse_feed(document) ==
    FoldLeft(FeedEvent, [state |-> "Root", tag |-> Nothing, text |-> Nothing, current |-> Nothing,
                     items |-> <<>>], document).items
-----------------------------------------------------------------------------
(* Filters: the first rule that matches decides.                           *)
match_number_comparison(op, number, value) ==
    CASE op = ">=" -> value >= number [] op = "<=" -> value <= number
      [] op = ">" -> value > number [] op = "<" -> value < number
      [] OTHER -> value = number

(* The patterns of names are the sets of what they match.  Items have no   *)
(* rating, genres or tags; what sets an option always matches.             *)
Matches(c, item) ==
    CASE c.field = "title" -> item.title \in c.pattern
      [] c.field = "category" -> item.category \in c.pattern
      [] c.field = "season" -> item.season # Nothing /\ item.season \in c.pattern
      [] c.field = "size" -> match_number_comparison(c.op, c.number, item.size)
      [] c.field \in {"rating", "genre", "tag"} -> FALSE
      [] OTHER -> TRUE

evaluate(rules, item) ==
    LET matching == {i \in DOMAIN rules :
                        \A c \in Range(rules[i].conditions) : Matches(c, item)}
    IN IF matching = {} THEN "Reject"
       ELSE rules[CHOOSE i \in matching : \A j \in matching : i <= j].action
-----------------------------------------------------------------------------
already_processed(history, feed, item) == <<feed, item.url>> \in DOMAIN history
mark(history, feed, item, status) ==
    [k \in DOMAIN history \union {<<feed, item.url>>} |->
        IF k = <<feed, item.url>> THEN status ELSE history[k]]

(* Mutant: the history is looked up as it was before the document.         *)
ConsiderBeforeMarking(feed, r, item) ==
    LET action == evaluate(FilterOf[feed], item)
    IN CASE already_processed(feed_history, feed, item) -> r
         [] action \in {"Accept", "Options"} ->
               [r EXCEPT !.history = mark(@, feed, item, "Fetched"), !.accepted = Append(@, item)]
         [] action = "Reject" -> [r EXCEPT !.history = mark(@, feed, item, "Skipped")]
         [] OTHER -> r

(* Require and Comment neither accept nor remember.                        *)
Consider(feed, r, item) ==
    LET action == evaluate(FilterOf[feed], item)
    IN CASE already_processed(r.history, feed, item) -> r
         [] ~already_processed(r.history, feed, item) /\ action \in {"Accept", "Options"} ->
               [r EXCEPT !.history = mark(@, feed, item, "Fetched"), !.accepted = Append(@, item)]
         [] ~already_processed(r.history, feed, item) /\ action = "Reject" ->
               [r EXCEPT !.history = mark(@, feed, item, "Skipped")]
         [] OTHER -> r

Considered(feed, history, items) ==
    FoldLeft(LAMBDA r, item : Consider(feed, r, item),
             [history |-> history, accepted |-> <<>>], items)

(* What the history knows the items of a feed by.                          *)
ItemKeys(feed, items) == [i \in DOMAIN items |-> <<feed, items[i].url>>]
-----------------------------------------------------------------------------
FeedInit ==
    /\ feed_infos = [f \in FeedIds |-> [status |-> "Idle", fresh |-> FALSE,
                                        item_count |-> 0, error |-> FALSE]]
    /\ feed_history = <<>> /\ work = <<>> /\ fetches = 0 /\ handed_out = <<>>

(* ProcessFeed of an unknown feed is answered with an error.               *)
ProcessFeed(f) ==
    /\ work = <<>> /\ fetches < MaxFetches /\ work' = <<f>>
    /\ feed_infos' = [feed_infos EXCEPT ![f].status = "Fetching"]
    /\ UNCHANGED <<feed_history, fetches, handed_out>>

(* A tick fetches every feed that is due, one after the other.             *)
DueFeeds == {f \in FeedIds : ~feed_infos[f].fresh}

FeedTick ==
    /\ work = <<>> /\ fetches < MaxFetches /\ DueFeeds # {}
    /\ work' = SetToSeq(DueFeeds)
    /\ feed_infos' = [feed_infos EXCEPT ![Head(work')].status = "Fetching"]
    /\ UNCHANGED <<feed_history, fetches, handed_out>>

UpdateIsDue(f) ==
    /\ feed_infos[f].fresh
    /\ feed_infos' = [feed_infos EXCEPT ![f].fresh = FALSE]
    /\ UNCHANGED <<feed_history, work, fetches, handed_out>>

(* The feed is done with; the next of the tick begins.                     *)
FeedDone(info) ==
    LET f == Head(work)
        done == [feed_infos EXCEPT ![f] = info]
    IN /\ work' = Tail(work) /\ fetches' = fetches + 1
       /\ feed_infos' = IF work' = <<>> THEN done ELSE [done EXCEPT ![Head(work')].status = "Fetching"]

FetchFails ==
    /\ work # <<>>
    /\ FeedDone([feed_infos[Head(work)] EXCEPT !.status = "Error", !.error = TRUE])
    /\ UNCHANGED <<feed_history, handed_out>>

(* A document or a filter that cannot be read leaves the feed as it is.    *)
FeedUnreadable ==
    /\ work # <<>>
    /\ FeedDone(feed_infos[Head(work)])
    /\ UNCHANGED <<feed_history, handed_out>>

Fetched(document) ==
    LET f == Head(work)
        considered == Considered(f, feed_history, parse_feed(document))
    IN /\ work # <<>> /\ FilterOf[f] # Unreadable
       /\ feed_history' = considered.history
       /\ handed_out' = handed_out \o ItemKeys(f, considered.accepted)
       /\ FeedDone([status |-> "Idle", fresh |-> TRUE,
                    item_count |-> Len(considered.accepted), error |-> FALSE])

FeedNext ==
    \/ FeedTick \/ FetchFails \/ FeedUnreadable
    \/ \E f \in FeedIds : ProcessFeed(f) \/ UpdateIsDue(f)
    \/ \E d \in Documents : Fetched(d)
-----------------------------------------------------------------------------
(* An item is handed out once for a feed and never after it was skipped:   *)
(* not when a document lists it twice, not when it is fetched again after  *)
(* an error, not when a later document gives it another title or size; and *)
(* what was handed out is what the history says was fetched.               *)
AcceptedOnce ==
    /\ IsInjective(handed_out)
    /\ Range(handed_out) = {k \in DOMAIN feed_history : feed_history[k] = "Fetched"}
=============================================================================
