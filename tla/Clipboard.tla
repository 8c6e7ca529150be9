----------------------------- MODULE Clipboard -----------------------------
(***************************************************************************)
(* The shared clipboard (main/clipboard.c): a ring of recent clips and a   *)
(* list of favourites, in memory and as one blob in flash. Its three       *)
(* handlers run in the HTTP server's one task, so each is one step; the    *)
(* mutex they take is never waited for. A page shown on a phone stays      *)
(* there, through reboots too, and its links name clips by number: `link'  *)
(* is one of all the links shown so far, whichever.                        *)
(*                                                                         *)
(* A clip's text is a value; no text is Empty.                             *)
(***************************************************************************)
EXTENDS Naturals, Sequences, SequencesExt

CONSTANTS
  CLIP_RING_MAX, CLIP_FAV_MAX,
  Texts, Empty, Absent,
  MaxId               \* bound: clips are given numbers up to this one

Entry == [id : Nat \ {0}, text : Texts]
Stores == [next_id : Nat \ {0}, ring : Seq(Entry), favorites : Seq(Entry)]

ASSUME ClipboardAssumption ==
  /\ CLIP_RING_MAX \in Nat \ {0} /\ CLIP_FAV_MAX \in Nat \ {0}
  /\ MaxId \in Nat \ {0} /\ Empty \notin Texts /\ Absent \notin Stores

VARIABLES
  g_store,            \* next_id, ring (oldest first), favorites
  flash,              \* the blob, or Absent
  link,               \* on some page shown: number and text; or Absent
  unsaved,            \* history: the last save, or the load, failed
  lost                \* history: after some reboot memory was not what it was

clipVars == <<g_store, flash, link, unsaved, lost>>

-----------------------------------------------------------------------------
(* The store.                                                              *)

Fresh == [next_id |-> 1, ring |-> <<>>, favorites |-> <<>>]
Stored == IF flash = Absent THEN Fresh ELSE flash

\* clip_save(): nobody looks at its result.
Save(s) ==
  \/ flash' = s /\ unsaved' = FALSE
  \/ flash' = flash /\ unsaved' = TRUE

Favourites(s) == ToSet(s.favorites)
Recent(s) == ToSet(s.ring)
Clips(s) == Recent(s) \cup Favourites(s)

\* The first entry with that number; 0 when there is none.
IndexOf(seq, id) == SelectInSeq(seq, LAMBDA e : e.id = id)

-----------------------------------------------------------------------------
(* The operations, from a store to a store. Each saves if it gets so far.  *)

Room(ring) == IF Len(ring) = CLIP_RING_MAX THEN Tail(ring) ELSE ring
AddByCount(s, text) ==                  \* mutant: numbered by position
  IF text = Empty THEN s
  ELSE [s EXCEPT
    !.ring = Append(Room(@), [id |-> Len(s.ring) + Len(s.favorites) + 1,
                              text |-> text])]
clip_add(s, text) ==
  IF text = Empty THEN s
  ELSE [s EXCEPT
    !.ring = Append(Room(@), [id |-> s.next_id, text |-> text]),
    !.next_id = @ + 1]

clip_pin(s, id) ==
  LET i == IndexOf(s.ring, id) IN
  IF Len(s.favorites) >= CLIP_FAV_MAX \/ i = 0 THEN s
  ELSE [s EXCEPT !.favorites = Append(@, s.ring[i]), !.ring = RemoveAt(@, i)]

\* The clip goes back as the newest, under a new number.
UnpinFirst(s, id) ==                    \* mutant: added while still a favourite,
  LET i == IndexOf(s.favorites, id) IN  \* and the wrong one removed
  IF i = 0 \/ IndexOf(s.ring, id) # 0 THEN s
  ELSE clip_add([s EXCEPT !.favorites = RemoveAt(@, 1)], s.favorites[i].text)
clip_unpin(s, id) ==
  LET i == IndexOf(s.favorites, id) IN
  IF i = 0 \/ IndexOf(s.ring, id) # 0 THEN s
  ELSE clip_add([s EXCEPT !.favorites = RemoveAt(@, i)], s.favorites[i].text)

clip_delete(s, id) ==
  LET i == IndexOf(s.ring, id)
      f == IndexOf(s.favorites, id) IN
  IF i # 0 THEN [s EXCEPT !.ring = RemoveAt(@, i)]
  ELSE IF f # 0 THEN [s EXCEPT !.favorites = RemoveAt(@, f)] ELSE s

\* A step of the handlers: from the store s they found to the store t they
\* leave, saved if anything was done.
SaveNever(s, t) == UNCHANGED <<flash, unsaved>> \* mutant: left to the next save
SaveIfDone(s, t) == IF t = s THEN UNCHANGED <<flash, unsaved>> ELSE Save(t)
Becomes(t) == g_store' = t /\ SaveIfDone(g_store, t) /\ UNCHANGED <<link, lost>>

-----------------------------------------------------------------------------
(* The handlers.                                                           *)

\* handler_clip_add_post(). Without a body or a "text" nothing is added.
AddPost == \E text \in Texts \cup {Empty} :
  g_store.next_id <= MaxId /\ Becomes(clip_add(g_store, text))

\* handler_clip_action_get(). The number is one of a clip, or of a page shown
\* long ago, or missing: 0 stands for all that name no clip.
Performed(s, act, id) ==
  CASE act = "pin" -> clip_pin(s, id)
    [] act = "unpin" -> clip_unpin(s, id)
    [] act = "delete" -> clip_delete(s, id)
Numbers == {0} \cup {e.id : e \in Clips(g_store)}
ActionGet(act, id) ==
  (act = "unpin" => g_store.next_id <= MaxId) /\ Becomes(Performed(g_store, act, id))

\* handler_clip_get(): favourites, then the ring, the newest first, as far as
\* the buffer lasts.
Listed(s) == s.favorites \o Reverse(s.ring)
PageGet ==
  /\ link' \in ToSet(Listed(g_store))
  /\ UNCHANGED <<g_store, flash, unsaved, lost>>

\* clipboard_init(), before the HTTP server starts. A blob that cannot be read is
\* passed over. Every blob is the whole store of this build: storage_get_blob()
\* does not compare the length, and would take a shorter one of another build for
\* the beginning of the store.
Reboot ==
  /\ \E s \in {Stored, Fresh} :
       /\ g_store' = s
       /\ unsaved' = (s # Stored) /\ lost' = (lost \/ s # g_store)
  /\ UNCHANGED <<flash, link>>

-----------------------------------------------------------------------------
ClipInit ==
  /\ g_store = Fresh /\ flash = Absent
  /\ link = Absent /\ unsaved = FALSE /\ lost = FALSE

ClipNext ==
  \/ AddPost \/ PageGet \/ Reboot
  \/ \E act \in {"pin", "unpin", "delete"}, id \in Numbers : ActionGet(act, id)

ClipSpec == ClipInit /\ [][ClipNext]_clipVars

-----------------------------------------------------------------------------
(* Properties.                                                             *)

WithinLimits(s) == /\ s \in Stores
                   /\ Len(s.ring) <= CLIP_RING_MAX
                   /\ Len(s.favorites) <= CLIP_FAV_MAX

ClipTypeOK ==
  /\ WithinLimits(g_store) /\ (flash # Absent => WithinLimits(flash))
  /\ unsaved \in BOOLEAN /\ lost \in BOOLEAN
  /\ link \in Entry \cup {Absent}

\* No two clips have the same number, no clip has one that is still to be given,
\* and the ring is in the order of its numbers: clips are deleted, pinned,
\* unpinned and evicted in any order, and clip_find() takes the first it meets.
Numbered(s) ==
  /\ \A i, j \in 1..Len(s.ring) : i < j => s.ring[i].id < s.ring[j].id
  /\ \A i, j \in 1..Len(s.favorites) :
       i # j => s.favorites[i].id # s.favorites[j].id
  /\ \A r \in Recent(s), f \in Favourites(s) : r.id # f.id
  /\ \A e \in Clips(s) : e.id < s.next_id
OneNumberEach == Numbered(g_store)

\* Flash has what memory has unless the last save, or the load, failed:
\* unpinning leaves its save to the add it ends with.
MemoryIsSaved == unsaved \/ g_store = Stored

\* A link on a page, however old, is to the clip that page showed or to none,
\* unless numbers were forgotten: no number is given twice, not after a
\* reboot either.
LinksHold ==
  ~lost /\ link # Absent =>
    \A e \in Clips(g_store) : e.id = link.id => e = link

\* A favourite is "never auto-evicted" (clipboard.h:13): it goes when its own
\* link is used and then, unpinned, its text is the newest of the ring, however
\* full; reboots keep it unless they lose what was not saved.
FavouritesKept ==
  [][\A e \in Favourites(g_store) :
       \/ e \in Favourites(g_store)' \/ lost'
       \/ ActionGet("delete", e.id)
       \/ /\ ActionGet("unpin", e.id)
          /\ Last(g_store.ring)'.text = e.text]_clipVars

\* A recent clip goes when it is deleted or pinned, or as the oldest of a full
\* ring when a newer one comes.
OnlyOldestEvicted ==
  [][\A e \in Recent(g_store) :
       \/ e \in Clips(g_store)' \/ lost'
       \/ ActionGet("delete", e.id)
       \/ /\ Len(g_store.ring) = CLIP_RING_MAX /\ e = Head(g_store.ring)
          /\ \E n \in Recent(g_store)' : n.id >= g_store.next_id]_clipVars

\* The clips in order, in parts: types and the room for them, their numbers, and
\* what of them is in flash.
ClipSafety ==
  /\ ClipTypeOK /\ OneNumberEach /\ MemoryIsSaved

\* No clip goes but as the user or the room there is has it.
ClipsKept == FavouritesKept /\ OnlyOldestEvicted
=============================================================================
