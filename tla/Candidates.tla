----------------------------- MODULE Candidates -----------------------------
(***************************************************************************)
(* The talent pool: the profiles of a tenant's candidates, the tag and the *)
(* notes recruiters attach to them and the searches they save, the         *)
(* enrichment of a profile from a parsed resume, and a client that walks   *)
(* the paginated list meanwhile.                                           *)
(*                                                                         *)
(* Every operation loads the row it changes, computes the new one and      *)
(* writes at its commit the columns that differ from what it loaded (the   *)
(* unit of work of SQLAlchemy), so that operations on one candidate        *)
(* interleave between the load and the commit.  A candidate's identity is  *)
(* its place in the order of creation.  A request the role checks or the   *)
(* validators refuse changes nothing and is left out.                      *)
(***************************************************************************)
EXTENDS Naturals, FiniteSets, Sequences

CONSTANTS
    MaxCandidates, \* bound on the candidates a behaviour creates
    Initial,       \* the candidates there are at the start
    Addresses,     \* mail addresses, up to case
    Titles,        \* values of the fields a recruiter or a resume may give
    Skills,
    Edits,         \* the bodies of update requests
    Resumes,       \* what parsing a resume may find
    Users,         \* recruiters, who write notes and save searches
    Admins,        \* those of them who are org_admin
    Notes,
    Searches,
    Sessions,      \* requests and worker invocations under way at once
    PageSize,      \* the limit of the client that walks the list
    MaxOps,        \* bound on the operations of a behaviour
    None           \* NULL, the empty string or a field not given

ASSUME PoolAssumption ==
    /\ MaxCandidates \in Nat /\ Initial \in 0..MaxCandidates
    /\ PageSize \in Nat \ {0} /\ MaxOps \in Nat
    /\ Admins \subseteq Users

Ids == 1..MaxCandidates

(* An address as somebody spelled it, with capitals or without.            *)
Spelling == [address : Addresses, capitals : BOOLEAN]

MutantFolded(e) == e

Folded(e) == [e EXCEPT !.capitals = FALSE]

Row == [email : Spelling \cup {None}, title : Titles \cup {None},
        skills : SUBSET Skills, archived : BOOLEAN]

Blank == [email |-> None, title |-> None, skills |-> {}, archived |-> FALSE]

NoteRow == [author : Users, private : BOOLEAN, archived : BOOLEAN]

SearchRow == [creator : Users, shared : BOOLEAN, deleted : BOOLEAN]

(* None is no value, and what a request or a resume may carry.             *)
ASSUME ValuesAssumption ==
    /\ None \notin Titles \cup Spelling \cup BOOLEAN
    /\ \A skills \in SUBSET Skills : skills # None
    /\ None \notin Row \cup NoteRow \cup SearchRow
    /\ Edits \subseteq [email : Spelling \cup {None}, title : Titles \cup {None},
                       skills : (SUBSET Skills) \cup {None}]
    /\ Resumes \subseteq [email : Spelling \cup {None}, title : Titles \cup {None},
                         skills : SUBSET Skills]

(* What an operation is on, for those that load a row and write it later.  *)
OnCandidate == {"look", "update", "archive", "enrich"}
OnTag == {"tag", "untag"}
OnNote == {"edit note", "archive note"}
OnSearch == {"edit search", "delete search"}

VARIABLES
    cand,     \* the rows of candidates, None where there is none yet
    born,     \* how many were created, those of unfinished requests included
    tag,      \* the id of the tag on each candidate, 0 when it has none
    note,     \* the rows of candidate_notes
    search,   \* the rows of saved_searches
    op,       \* the operation each session is in the middle of
    walk,     \* the client that follows nextCursor through the list
    used,     \* operations begun so far
    said      \* history: the values given and not raced since, and the
              \* candidates whose address a parse stored

vars == <<cand, born, tag, note, search, op, walk, used, said>>

Ghost == [title : Titles \cup {None}, skills : SUBSET Skills, parsed : BOOLEAN]

Init ==
    /\ cand = [c \in Ids |-> IF c <= Initial THEN Blank ELSE None]
    /\ born = Initial
    /\ tag = [c \in Ids |-> 0]
    /\ note = [n \in Notes |-> None]
    /\ search = [q \in Searches |-> None]
    /\ op = [p \in Sessions |-> None]
    /\ walk = [state |-> "before", tagged |-> FALSE, offset |-> 0,
               shown |-> <<>>, stayed |-> {}, entered |-> 0, left |-> 0]
    /\ used = 0
    /\ said = [profile |-> [c \in Ids |->
                             [title |-> None, skills |-> {}, parsed |-> FALSE]],
               private |-> [n \in Notes |-> None],
               shared |-> [q \in Searches |-> None]]

----------------------------------------------------------------------------
(* The list, newest first, and the client that walks it.                   *)

(* An archived candidate is never listed.                                  *)
Active(rows) == {c \in Ids : rows[c] # None /\ ~rows[c].archived}

(* The filters of list_candidates: only those with the tag when the client *)
(* asked for it.                                                           *)
Listed(rows, tags, tagged) == {c \in Active(rows) : tagged => tags[c] # 0}

(* The candidates of S from the newest to the oldest.                      *)
NewestFirst(S) ==
    [i \in 1..Cardinality(S) |->
        CHOOSE c \in S : Cardinality({d \in S : d > c}) = i - 1]

(* What a commit that leaves rows and tags does to the walk's accounts.    *)
Follow(rows, tags) ==
    LET was == Listed(cand, tag, walk.tagged)
        now == Listed(rows, tags, walk.tagged)
    IN  walk' = IF walk.state = "walking"
                  THEN [walk EXCEPT !.stayed = @ \cap now,
                                    !.entered = @ + Cardinality(now \ was),
                                    !.left = @ + Cardinality(was \ now)]
                  ELSE walk

(* The first request of a walk carries no cursor.                          *)
StartWalk ==
    /\ walk.state = "before"
    /\ \E tagged \in BOOLEAN :
          walk' = [walk EXCEPT !.state = "walking", !.tagged = tagged,
                               !.stayed = Listed(cand, tag, tagged)]
    /\ UNCHANGED <<cand, born, tag, note, search, op, used, said>>

(* A full page is taken for a sign that there is more.                     *)
More(page) == Len(page) = PageSize

MutantNextOffset(offset) == offset + PageSize + 1

(* The cursor: the offset of the next page.                                *)
NextOffset(offset) == offset + PageSize

(* The query: at most PageSize of the candidates listed, from the offset.  *)
Slice(all, offset) ==
    SubSeq(all, offset + 1,
           IF offset + PageSize < Len(all) THEN offset + PageSize ELSE Len(all))

(* One request of the walk: the page at the offset its cursor holds.       *)
Page ==
    /\ walk.state = "walking"
    /\ LET page == Slice(NewestFirst(Listed(cand, tag, walk.tagged)), walk.offset)
       IN  walk' = [walk EXCEPT !.shown = @ \o page,
                                !.offset = NextOffset(@),
                                !.state = IF More(page) THEN "walking" ELSE "done"]
    /\ UNCHANGED <<cand, born, tag, note, search, op, used, said>>

----------------------------------------------------------------------------
(* What the operations share.                                              *)

(* Session p begins an operation.                                          *)
Starts(p, o) ==
    /\ op[p] = None /\ used < MaxOps
    /\ used' = used + 1
    /\ op' = [op EXCEPT ![p] = o]

(* A row of candidates was written: whoever loaded it before is late.      *)
Ended(p, c) ==
    op' = [q \in Sessions |->
             IF q = p THEN None
             ELSE IF op[q] # None /\ op[q].on = c THEN [op[q] EXCEPT !.late = TRUE]
             ELSE op[q]]

(* Session p ends without a write: refused, or rolled back.                *)
GivesUp(p) ==
    /\ op' = [op EXCEPT ![p] = None]
    /\ UNCHANGED <<cand, tag, note, search, walk, said>>

MutantWritten(row, loaded, new) == new

(* The columns an operation changed are written, the others left alone.    *)
Written(row, loaded, new) ==
    [f \in DOMAIN row |-> IF new[f] = loaded[f] THEN row[f] ELSE new[f]]

(* get_candidate_by_email: the address is stored exactly as e.             *)
Found(e, c) == \E d \in Ids \ {c} : cand[d] # None /\ cand[d].email = e

(* uq_candidates_tenant_email would be violated by c's new row.            *)
Collides(c, row) == row.email # None /\ Found(row.email, c)

(* The commit of row as the candidate c by session p.                      *)
Commits(p, c, row) ==
    /\ cand' = [cand EXCEPT ![c] = row]
    /\ Ended(p, c)
    /\ Follow(cand', tag)
    /\ UNCHANGED <<tag, note, search>>

----------------------------------------------------------------------------
(* Candidates.                                                             *)

(* create_candidate up to the duplicate lookup; created_at is the time the *)
(* transaction began.                                                      *)
StartCreate(p) ==
    /\ born < MaxCandidates
    /\ \E e \in Spelling \cup {None} :
          LET clean == IF e = None THEN None ELSE Folded(e)
          IN  /\ clean = None \/ ~Found(clean, born + 1)
              /\ Starts(p, [kind |-> "create", on |-> born + 1, late |-> FALSE,
                            row |-> [Blank EXCEPT !.email = clean]])
    /\ born' = born + 1
    /\ UNCHANGED <<cand, tag, note, search, walk, said>>

(* The INSERT and the commit, or the unique index that refuses them.       *)
FinishCreate(p) ==
    /\ op[p] # None /\ op[p].kind = "create"
    /\ IF Collides(op[p].on, op[p].row)
         THEN GivesUp(p)
         ELSE Commits(p, op[p].on, op[p].row) /\ UNCHANGED said
    /\ UNCHANGED <<born, used>>

(* The edit asks for another address than the one the row has.             *)
ChangesEmail(row, edit) ==
    edit.email # None /\ (row.email = None \/ Folded(edit.email) # Folded(row.email))

(* _build_update_dict and the assignments of update_candidate.             *)
Edited(row, edit) ==
    [row EXCEPT
        !.email = IF ChangesEmail(row, edit) THEN Folded(edit.email) ELSE @,
        !.title = IF edit.title = None THEN @ ELSE edit.title,
        !.skills = IF edit.skills = None THEN @ ELSE edit.skills]

(* update_candidate loads the row.                                         *)
StartUpdate(p) ==
    \E c \in Ids, edit \in Edits :
        /\ cand[c] # None
        /\ Starts(p, [kind |-> IF ChangesEmail(cand[c], edit) THEN "look" ELSE "update",
                      on |-> c, late |-> FALSE, loaded |-> cand[c], edit |-> edit])
        /\ UNCHANGED <<cand, born, tag, note, search, walk, said>>

(* The duplicate lookup: a 409 when another candidate has the address.     *)
LookUp(p) ==
    /\ op[p] # None /\ op[p].kind = "look"
    /\ op' = [op EXCEPT ![p] = IF Found(Folded(op[p].edit.email), op[p].on)
                                 THEN None ELSE [@ EXCEPT !.kind = "update"]]
    /\ UNCHANGED <<cand, born, tag, note, search, walk, used, said>>

(* A write that lists the same skills in another order replaces the list   *)
(* although the set is the same: both outcomes are possible.               *)
Outcomes(o, new) ==
    LET row == Written(cand[o.on], o.loaded, new)
    IN  {row, [row EXCEPT !.skills = new.skills]}

(* The flush and the commit of update_candidate.  A field the request gave *)
(* is the recruiter's word from now on, unless the request was late and    *)
(* did not write it.                                                       *)
FinishUpdate(p) ==
    /\ op[p] # None /\ op[p].kind = "update"
    /\ LET o == op[p]
           edit == o.edit
           new == Edited(o.loaded, edit)
       IN  \E row \in IF edit.skills = None
                        THEN {Written(cand[o.on], o.loaded, new)} ELSE Outcomes(o, new) :
             IF Collides(o.on, row) THEN GivesUp(p)
             ELSE /\ Commits(p, o.on, row)
                  /\ said' = [said EXCEPT !.profile[o.on] =
                        [title |-> IF edit.title = None THEN @.title
                                   ELSE IF o.late /\ edit.title = o.loaded.title
                                     THEN None ELSE edit.title,
                         skills |-> IF edit.skills = None THEN @.skills
                                    ELSE IF o.late /\ edit.skills = o.loaded.skills
                                      THEN {} ELSE edit.skills,
                         parsed |-> @.parsed /\ ~ChangesEmail(o.loaded, edit)]]
    /\ UNCHANGED <<born, used>>

(* archive_candidate loads the row and sets is_archived.                   *)
StartArchive(p) ==
    \E c \in Ids :
        /\ cand[c] # None
        /\ Starts(p, [kind |-> "archive", on |-> c, late |-> FALSE, loaded |-> cand[c]])
        /\ UNCHANGED <<cand, born, tag, note, search, walk, said>>

FinishArchive(p) ==
    /\ op[p] # None /\ op[p].kind = "archive"
    /\ LET o == op[p]
       IN  Commits(p, o.on, Written(cand[o.on], o.loaded, [o.loaded EXCEPT !.archived = TRUE]))
    /\ UNCHANGED <<born, used, said>>

----------------------------------------------------------------------------
(* The enrichment of a profile, inside the transaction of a parse.         *)

(* The worker loads the candidate of the resume it has parsed.             *)
StartEnrich(p) ==
    \E c \in Ids, found \in Resumes :
        /\ cand[c] # None
        /\ Starts(p, [kind |-> "enrich", on |-> c, late |-> FALSE,
                      loaded |-> cand[c], found |-> found])
        /\ UNCHANGED <<cand, born, tag, note, search, walk, said>>

MutantFilled(old, found) == IF found = None THEN old ELSE found

(* A field is filled in only when it is empty.                             *)
Filled(old, found) == IF old = None THEN found ELSE old

(* The address is stored as the resume spells it, and the skills found are *)
(* added to those the candidate has.                                       *)
Enriched(row, found) ==
    [row EXCEPT !.email = Filled(@, found.email), !.title = Filled(@, found.title),
                !.skills = @ \cup found.skills]

(* The flush and the commit of the parse; an address another candidate has *)
(* fails the whole parse, which is rolled back.  A late worker may         *)
(* overwrite the title a recruiter gave meanwhile, and the skills others   *)
(* added.                                                                  *)
FinishEnrich(p) ==
    /\ op[p] # None /\ op[p].kind = "enrich"
    /\ LET o == op[p]
           new == Enriched(o.loaded, o.found)
       IN  \E row \in IF o.found.skills = {}
                        THEN {Written(cand[o.on], o.loaded, new)} ELSE Outcomes(o, new) :
             IF Collides(o.on, row) THEN GivesUp(p)
             ELSE /\ Commits(p, o.on, row)
                  /\ said' = [said EXCEPT !.profile[o.on] =
                        [title |-> IF o.late /\ row.title # cand[o.on].title
                                     THEN None ELSE @.title,
                         skills |-> IF ~o.late THEN @.skills \cup o.found.skills
                                    ELSE IF row.skills = cand[o.on].skills THEN @.skills
                                    ELSE o.found.skills,
                         parsed |-> @.parsed \/ row.email # cand[o.on].email]]
    /\ UNCHANGED <<born, used>>

----------------------------------------------------------------------------
(* Tags.  One tag name is followed; names are compared once normalized.    *)

(* get_candidate_tag_by_name.                                              *)
HasTag(c) == tag[c] # 0

(* get_tag_by_id and the DELETE of that id.                                *)
Without(id) == [c \in Ids |-> IF tag[c] = id THEN 0 ELSE tag[c]]

MutantStartTag(p) ==
    \E c \in Ids :
        /\ ~HasTag(c)
        /\ Starts(p, [kind |-> "tag", on |-> 0, late |-> FALSE,
                      of |-> c, id |-> used + 1])
        /\ UNCHANGED <<cand, born, tag, note, search, walk, said>>

(* add_tag up to its lookup: a 409 when the candidate has the tag.         *)
StartTag(p) ==
    \E c \in Ids :
        /\ cand[c] # None /\ ~HasTag(c)
        /\ Starts(p, [kind |-> "tag", on |-> 0, late |-> FALSE,
                      of |-> c, id |-> used + 1])
        /\ UNCHANGED <<cand, born, tag, note, search, walk, said>>

(* The commit of a new set of tags by session p.                           *)
Tags(p, tags) ==
    /\ tag' = tags
    /\ op' = [op EXCEPT ![p] = None]
    /\ Follow(cand, tags)
    /\ UNCHANGED <<cand, note, search, said>>

(* The INSERT, unless uq_candidate_tags_candidate_tag refuses it.          *)
FinishTag(p) ==
    /\ op[p] # None /\ op[p].kind = "tag"
    /\ IF HasTag(op[p].of) THEN GivesUp(p)
       ELSE Tags(p, [tag EXCEPT ![op[p].of] = op[p].id])
    /\ UNCHANGED <<born, used>>

(* remove_tag loads the tag by its id.                                     *)
StartUntag(p) ==
    \E c \in Ids :
        /\ HasTag(c)
        /\ Starts(p, [kind |-> "untag", on |-> 0, late |-> FALSE, of |-> c, id |-> tag[c]])
        /\ UNCHANGED <<cand, born, tag, note, search, walk, said>>

(* The DELETE of that id, which may be gone.                               *)
FinishUntag(p) ==
    /\ op[p] # None /\ op[p].kind = "untag"
    /\ Tags(p, Without(op[p].id))
    /\ UNCHANGED <<born, used>>

----------------------------------------------------------------------------
(* Notes.                                                                  *)

(* create_note: one INSERT.                                                *)
CreateNote ==
    /\ used < MaxOps /\ used' = used + 1
    /\ \E n \in Notes, u \in Users, private \in BOOLEAN :
          /\ note[n] = None
          /\ note' = [note EXCEPT ![n] =
                        [author |-> u, private |-> private, archived |-> FALSE]]
          /\ said' = [said EXCEPT !.private[n] = private]
    /\ UNCHANGED <<cand, born, tag, search, op, walk>>

(* get_note_by_id: an archived note is not found.                          *)
Readable(n) == note[n] # None /\ ~note[n].archived

(* The fields of update_note: its privacy; the content is not followed.    *)
Reworded(row, private) == IF private = None THEN row ELSE [row EXCEPT !.private = private]

(* update_note by the author.                                              *)
StartNoteEdit(p) ==
    \E n \in Notes, private \in BOOLEAN \cup {None} :
        /\ Readable(n)
        /\ Starts(p, [kind |-> "edit note", on |-> n, late |-> FALSE,
                      loaded |-> note[n], asked |-> private])
        /\ UNCHANGED <<cand, born, tag, note, search, walk, said>>

(* archive_note by the author or an org_admin.                             *)
StartNoteArchive(p) ==
    \E n \in Notes, u \in Users :
        /\ Readable(n) /\ (u = note[n].author \/ u \in Admins)
        /\ Starts(p, [kind |-> "archive note", on |-> n, late |-> FALSE, loaded |-> note[n]])
        /\ UNCHANGED <<cand, born, tag, note, search, walk, said>>

(* What a flag that a request has asked for is known to be from now on.    *)
Known(before, o, loaded) ==
    IF o.asked = None THEN before
    ELSE IF o.late /\ o.asked = loaded THEN None ELSE o.asked

(* The flush and the commit of update_note.                                *)
FinishNoteEdit(p) ==
    /\ op[p] # None /\ op[p].kind = "edit note"
    /\ LET o == op[p]
       IN  /\ note' = [note EXCEPT ![o.on] = Written(@, o.loaded, Reworded(o.loaded, o.asked))]
           /\ said' = [said EXCEPT !.private[o.on] = Known(@, o, o.loaded.private)]
           /\ Ended(p, o.on)
    /\ UNCHANGED <<cand, born, tag, search, walk, used>>

(* The flush and the commit of archive_note.                               *)
FinishNoteArchive(p) ==
    /\ op[p] # None /\ op[p].kind = "archive note"
    /\ LET o == op[p]
       IN  /\ note' = [note EXCEPT ![o.on] =
                          Written(@, o.loaded, [o.loaded EXCEPT !.archived = TRUE])]
           /\ Ended(p, o.on)
    /\ UNCHANGED <<cand, born, tag, search, walk, used, said>>

----------------------------------------------------------------------------
(* Saved searches.                                                         *)

(* create_saved_search: one INSERT.                                        *)
CreateSearch ==
    /\ used < MaxOps /\ used' = used + 1
    /\ \E q \in Searches, u \in Users, shared \in BOOLEAN :
          /\ search[q] = None
          /\ search' = [search EXCEPT ![q] =
                          [creator |-> u, shared |-> shared, deleted |-> FALSE]]
          /\ said' = [said EXCEPT !.shared[q] = shared]
    /\ UNCHANGED <<cand, born, tag, note, op, walk>>

(* get_saved_search_by_id, and its creator or an org_admin.                *)
MayChange(u, q) ==
    /\ search[q] # None /\ ~search[q].deleted
    /\ u = search[q].creator \/ u \in Admins

(* The fields of update_saved_search: whether it is shared.                *)
Reshared(row, shared) == IF shared = None THEN row ELSE [row EXCEPT !.shared = shared]

StartSearchEdit(p) ==
    \E q \in Searches, u \in Users, shared \in BOOLEAN \cup {None} :
        /\ MayChange(u, q)
        /\ Starts(p, [kind |-> "edit search", on |-> q, late |-> FALSE,
                      loaded |-> search[q], asked |-> shared])
        /\ UNCHANGED <<cand, born, tag, note, search, walk, said>>

(* The UPDATE and its commit; without its row it fails.                    *)
FinishSearchEdit(p) ==
    /\ op[p] # None /\ op[p].kind = "edit search"
    /\ LET o == op[p]
       IN  IF search[o.on].deleted THEN GivesUp(p)
           ELSE /\ search' = [search EXCEPT ![o.on] =
                                Written(@, o.loaded, Reshared(o.loaded, o.asked))]
                /\ said' = [said EXCEPT !.shared[o.on] = Known(@, o, o.loaded.shared)]
                /\ Ended(p, o.on)
                /\ UNCHANGED <<cand, tag, note, walk>>
    /\ UNCHANGED <<born, used>>

StartSearchDelete(p) ==
    \E q \in Searches, u \in Users :
        /\ MayChange(u, q)
        /\ Starts(p, [kind |-> "delete search", on |-> q, late |-> FALSE])
        /\ UNCHANGED <<cand, born, tag, note, search, walk, said>>

(* The DELETE of the row, which may be gone.                               *)
FinishSearchDelete(p) ==
    /\ op[p] # None /\ op[p].kind = "delete search"
    /\ search' = [search EXCEPT ![op[p].on].deleted = TRUE]
    /\ Ended(p, op[p].on)
    /\ UNCHANGED <<cand, born, tag, note, walk, used, said>>

----------------------------------------------------------------------------
Next ==
    \/ StartWalk \/ Page \/ CreateNote \/ CreateSearch
    \/ \E p \in Sessions :
          \/ StartCreate(p) \/ FinishCreate(p)
          \/ StartUpdate(p) \/ LookUp(p) \/ FinishUpdate(p)
          \/ StartArchive(p) \/ FinishArchive(p)
          \/ StartEnrich(p) \/ FinishEnrich(p)
          \/ StartTag(p) \/ FinishTag(p) \/ StartUntag(p) \/ FinishUntag(p)
          \/ StartNoteEdit(p) \/ FinishNoteEdit(p)
          \/ StartNoteArchive(p) \/ FinishNoteArchive(p)
          \/ StartSearchEdit(p) \/ FinishSearchEdit(p)
          \/ StartSearchDelete(p) \/ FinishSearchDelete(p)

Spec == Init /\ [][Next]_vars

----------------------------------------------------------------------------
(* Properties.                                                             *)

Operation ==
    [kind : {"create"}, on : Ids, late : BOOLEAN, row : Row] \cup
    [kind : {"look", "update"}, on : Ids, late : BOOLEAN, loaded : Row, edit : Edits] \cup
    [kind : {"archive"}, on : Ids, late : BOOLEAN, loaded : Row] \cup
    [kind : {"enrich"}, on : Ids, late : BOOLEAN, loaded : Row, found : Resumes] \cup
    [kind : OnTag, on : {0}, late : BOOLEAN, of : Ids, id : 1..MaxOps] \cup
    [kind : {"edit note"}, on : Notes, late : BOOLEAN, loaded : NoteRow,
     asked : BOOLEAN \cup {None}] \cup
    [kind : {"archive note"}, on : Notes, late : BOOLEAN, loaded : NoteRow] \cup
    [kind : {"edit search"}, on : Searches, late : BOOLEAN, loaded : SearchRow,
     asked : BOOLEAN \cup {None}] \cup
    [kind : {"delete search"}, on : Searches, late : BOOLEAN]

(* Types of the rows, of the walk and of the histories; what a tag, a      *)
(* cursor or a request refers to exists.                                   *)
TypeOK ==
    /\ cand \in [Ids -> Row \cup {None}] /\ born \in Initial..MaxCandidates
    /\ tag \in [Ids -> 0..MaxOps] /\ note \in [Notes -> NoteRow \cup {None}]
    /\ search \in [Searches -> SearchRow \cup {None}]
    /\ op \in [Sessions -> Operation \cup {None}]
    /\ walk \in [state : {"before", "walking", "done"}, tagged : BOOLEAN, offset : Nat,
                 shown : Seq(Ids), stayed : SUBSET Ids, entered : Nat, left : Nat]
    /\ \A c \in Ids : cand[c] # None => c <= born
    /\ \A c \in Ids : tag[c] # 0 => cand[c] # None
    /\ \E n \in 0..walk.offset : walk.offset = n * PageSize
    /\ used \in 0..MaxOps
    /\ said \in [profile : [Ids -> Ghost], private : [Notes -> BOOLEAN \cup {None}],
                shared : [Searches -> BOOLEAN \cup {None}]]

(* Duplicate detection: two candidates have the same address, up to case,  *)
(* only when a parse stored one of them with capitals.  The lookup of      *)
(* create_candidate and update_candidate and the write are separate, and   *)
(* the unique index compares spellings, not addresses.                     *)
EmailsTellApart ==
    \A c, d \in Ids :
        /\ c # d /\ cand[c] # None /\ cand[d] # None
        /\ cand[c].email # None /\ cand[d].email # None
        /\ cand[c].email.address = cand[d].email.address
        => \E x \in {c, d} : said.profile[x].parsed /\ cand[x].email.capitals

(* A title a recruiter gave, the skills given and found since, the privacy *)
(* its author gave a note and whether a search is shared stay until        *)
(* another request changes them, whatever else is saved meanwhile on the   *)
(* same row, unless the writer had loaded the row before an earlier one    *)
(* committed.                                                              *)
EditsStand ==
    /\ \A c \in Ids :
          LET g == said.profile[c]
          IN  /\ g.title # None => cand[c].title = g.title
              /\ g.skills # {} => g.skills \subseteq cand[c].skills
    /\ \A n \in Notes :
          said.private[n] # None => note[n].private = said.private[n]
    /\ \A q \in Searches :
          said.shared[q] # None => search[q].shared = said.shared[q]

(* No save brings an archived candidate or note or a deleted search back,  *)
(* not even one that loaded the row before it went.                        *)
ArchivedStays ==
    [][/\ \A c \in Ids : cand[c] # None /\ cand[c].archived => cand'[c].archived
       /\ \A n \in Notes : note[n] # None /\ note[n].archived => note'[n].archived
       /\ \A q \in Searches : search[q] # None /\ search[q].deleted => search'[q].deleted]_vars

(* A client that follows the cursors to the end misses at most one of the  *)
(* candidates listed all along for each one that left the list meanwhile,  *)
(* and sees at most one twice for each one that entered it.                *)
WalkAccounts ==
    LET shown == {walk.shown[i] : i \in DOMAIN walk.shown}
    IN  /\ walk.state = "done" =>
              Cardinality(walk.stayed \ shown) <= walk.left
        /\ Len(walk.shown) - Cardinality(shown) <= walk.entered

-----------------------------------------------------------------------------
(* The parts of the inductive invariant of Candidates_proofs that no       *)
(* property states.                                                        *)

(* An operation is on something that exists, or for a create not yet, with *)
(* an address in small letters, and if it is not late, what it has loaded  *)
(* is the row.                                                             *)
Loads(o) ==
    /\ o.kind = "create" =>
          /\ o.on <= born /\ cand[o.on] = None
          /\ o.row.email # None => ~o.row.email.capitals
    /\ o.kind \in OnCandidate =>
          cand[o.on] # None /\ (~o.late => o.loaded = cand[o.on])
    /\ o.kind = "tag" => cand[o.of] # None
    /\ o.kind \in OnNote =>
          note[o.on] # None /\ (~o.late => o.loaded = note[o.on])
    /\ o.kind \in OnSearch => search[o.on] # None
    /\ o.kind = "edit search" /\ ~o.late => o.loaded = search[o.on]

OperationsSound ==
    /\ \A p \in Sessions : op[p] # None => Loads(op[p])
    /\ \A p, q \in Sessions :
          /\ op[p] # None /\ op[p].kind = "create"
          /\ op[q] # None /\ op[q].kind = "create" /\ op[p].on = op[q].on
          => p = q

(* What the unique index and the parsers make of addresses.                *)
AddressesSound ==
    /\ \A c, d \in Ids :
          /\ cand[c] # None /\ cand[d] # None
          /\ cand[c].email # None /\ cand[c].email = cand[d].email
          => c = d
    /\ \A c \in Ids :
          /\ cand[c] # None /\ cand[c].email # None /\ cand[c].email.capitals
          => said.profile[c].parsed

(* Nothing is said of what is not there.                                   *)
SaidOfRows ==
    /\ \A c \in Ids : cand[c] = None =>
          said.profile[c].title = None /\ said.profile[c].skills = {}
    /\ \A n \in Notes : note[n] = None => said.private[n] = None
    /\ \A q \in Searches : search[q] = None => said.shared[q] = None

(* How many of S come before c in the list.                                *)
Before(S, c) == Cardinality({d \in S : d > c})

(* Those of the first n of the list S, and the others.                     *)
FirstOf(S, n) == {c \in S : Before(S, c) < n}

(* The candidates shown so far.                                            *)
Shown == {walk.shown[i] : i \in DOMAIN walk.shown}

(* Where the walk stands: those that slipped to a page already fetched are *)
(* no more than left, and those shown before that will be met again, with  *)
(* those met again so far, no more than entered.                           *)
WalkSound ==
    LET all == Listed(cand, tag, walk.tagged)
    IN  /\ walk.state = "before" => walk.shown = <<>> /\ walk.offset = 0 /\ walk.entered = 0
        /\ walk.state = "walking" =>
              /\ walk.stayed \subseteq all
              /\ Cardinality((walk.stayed \cap FirstOf(all, walk.offset)) \ Shown) <= walk.left
              /\ Len(walk.shown) - Cardinality(Shown)
                   + Cardinality((all \cap Shown) \ FirstOf(all, walk.offset)) <= walk.entered

(* The inductive invariant of Candidates_proofs.                           *)
IInv ==
    /\ TypeOK /\ OperationsSound /\ AddressesSound /\ SaidOfRows /\ EditsStand
    /\ WalkSound /\ WalkAccounts
=============================================================================
