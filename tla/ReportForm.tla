------------------------------ MODULE ReportForm ------------------------------
(* The form that files a report: its location field, with suggestions and the  *)
(* position of the device, its photos and its one submission at a time.        *)
(* Sources: ReportIssuePage.jsx, LocationField.jsx, locationValue.js and the   *)
(* createStatus of complaintSlice.jsx.  Leaving the page is left out.          *)
EXTENDS Naturals, FiniteSets, Folds

CONSTANTS
  Text,       \* what the citizen may type, long enough to be looked up
  Size,       \* sizes of photos, in MiB
  MaxPhotos, MaxPhotoSize, MaxTotal,  \* MAX_IMAGES, MAX_IMAGE_BYTES, MAX_AGGREGATE_BYTES
  MaxTyped,   \* bound: changes of the text
  MaxLookups, \* bound: lookups of suggestions under way together
  MaxSearches \* bound: searches for the device's position

NamesAssumption == {"", "found"} \cap Text = {}
SizesAssumption == Size \subseteq Nat /\ IsFiniteSet(Size) /\ {MaxPhotos, MaxPhotoSize, MaxTotal} \subseteq Nat

VARIABLES
  location,   \* the value of the form: address and sourced pair
  shown,      \* the texts whose suggestions are listed
  timer,      \* the text whose lookup waits for the debounce
  lookups,    \* the texts being looked up
  search,     \* the device's position: idle, position (asked) or address (looked up)
  typed, searches, \* how often the text changed, and the device was asked
  discarded,  \* history: the position was removed and not asked for again
  photos,     \* how many photos of each size
  createStatus

vars == <<location, shown, timer, lookups, search, typed, searches, discarded, photos, createStatus>>
field == <<location, shown, timer, lookups, search, typed, searches, discarded>>

\* A text as typed, as spelled by the suggestion it leads to, or as found for the device.
Typed(t) == <<"typed", t>>
Suggested(t) == <<"suggested", t>>
Address == {Typed(t) : t \in Text \cup {""}} \cup {Suggested(t) : t \in Text} \cup {<<"device", "found">>}

\* Coordinates only as a sourced pair; a suggestion's are those of the text it is for.
NoPair == <<"none", "">>
Device == <<"DEVICE", "">>
PairOf(t) == <<"SUGGESTION", t>>
Pair == {NoPair, Device} \cup {PairOf(t) : t \in Text}

EMPTY_LOCATION == [address |-> Typed(""), pair |-> NoPair]

TypeOK ==
  /\ location \in [address : Address, pair : Pair]
  /\ shown \subseteq Text /\ timer \in Text \cup {""} /\ lookups \subseteq Text
  /\ search \in {"idle", "position", "address"}
  /\ photos \in [Size -> 0..MaxPhotos]
  /\ createStatus \in {"idle", "loading", "succeeded", "failed"}

Init ==
  /\ location = EMPTY_LOCATION
  /\ shown = {} /\ timer = "" /\ lookups = {} /\ search = "idle"
  /\ typed = 0 /\ searches = 0 /\ discarded = FALSE
  /\ photos = [s \in Size |-> 0] /\ createStatus = "idle"

-----------------------------------------------------------------------------
(* The location field *)

\* The value after typing: a device position stays, the pair of a suggestion is dropped.
Edited(t) ==
  [address |-> Typed(t), pair |-> IF location.pair = Device THEN Device ELSE NoPair]

\* Typing a text of three characters or more starts the debounce over; an emptied one stops it.
\* Suggestions are sought only when the position is not the device's.
Type(t) ==
  /\ typed < MaxTyped /\ typed' = typed + 1
  /\ Typed(t) # location.address
  /\ location' = Edited(t)
  /\ IF location.pair = Device
       THEN UNCHANGED <<shown, timer>>
       ELSE /\ timer' = t
            /\ shown' = IF t = "" THEN {} ELSE shown
  /\ UNCHANGED <<lookups, search, searches, discarded, photos, createStatus>>

\* The debounce is over: the lookup is sent.
Lookup ==
  /\ timer # "" /\ Cardinality(lookups) < MaxLookups
  /\ lookups' = lookups \cup {timer} /\ timer' = ""
  /\ UNCHANGED <<location, shown, search, typed, searches, discarded, photos, createStatus>>

\* A lookup is answered, in any order, or fails.
LookupEnds(t, answer) ==
  /\ t \in lookups /\ lookups' = lookups \ {t}
  /\ shown' = answer
  /\ UNCHANGED <<location, timer, search, typed, searches, discarded, photos, createStatus>>

\* A suggestion listed is picked: its address and its coordinates, together.
Choose(t) ==
  /\ t \in shown
  /\ location' = [address |-> Suggested(t), pair |-> PairOf(t)]
  /\ shown' = {}
  /\ UNCHANGED <<timer, lookups, search, typed, searches, discarded, photos, createStatus>>

\* The position of the device is asked for; the button is disabled until it is answered.
UseDevice ==
  /\ search = "idle" /\ searches < MaxSearches
  /\ search' = "position" /\ searches' = searches + 1 /\ discarded' = FALSE
  /\ UNCHANGED <<location, shown, timer, lookups, typed, photos, createStatus>>

\* The device answers, and its address is looked up.
Positioned ==
  /\ search = "position" /\ search' = "address"
  /\ UNCHANGED <<location, shown, timer, lookups, typed, searches, discarded, photos, createStatus>>

\* The position is refused or not found: the text stays.
NotPositioned ==
  /\ search = "position" /\ search' = "idle"
  /\ UNCHANGED <<location, shown, timer, lookups, typed, searches, discarded, photos, createStatus>>

\* The button after the lookup of the address, in its finally.
After(found) == "idle"

\* The address of the position is found or not: either way the position is kept.
Located(found) ==
  /\ search = "address" /\ search' = After(found)
  /\ location' = [address |-> IF found THEN <<"device", "found">> ELSE Typed(""), pair |-> Device]
  /\ UNCHANGED <<shown, timer, lookups, typed, searches, discarded, photos, createStatus>>

\* The citizen removes the precise position; the address stays.
Remove ==
  /\ location.pair = Device
  /\ location' = [location EXCEPT !.pair = NoPair] /\ discarded' = TRUE
  /\ UNCHANGED <<shown, timer, lookups, search, typed, searches, photos, createStatus>>

-----------------------------------------------------------------------------
(* The photos and the submission *)

Count(p) == MapThenFoldSet(+, 0, LAMBDA s : p[s], LAMBDA S : CHOOSE s \in S : TRUE, Size)
Total(p) == MapThenFoldSet(+, 0, LAMBDA s : s * p[s], LAMBDA S : CHOOSE s \in S : TRUE, Size)

\* A selection is taken whole or not at all.
Accepted(p, files) ==
  /\ Count(p) + Count(files) <= MaxPhotos
  /\ \A s \in Size : files[s] > 0 => s <= MaxPhotoSize
  /\ Total(p) + Total(files) <= MaxTotal

\* Photos of two sizes at most are selected together.
AddPhotos ==
  /\ \E a, b \in Size :
       LET files == [s \in Size |-> IF s \in {a, b} THEN 1 ELSE 0]
       IN  /\ Accepted(photos, files)
           /\ photos' = [s \in Size |-> photos[s] + files[s]]
  /\ UNCHANGED <<field, createStatus>>

RemovePhoto(s) ==
  /\ photos[s] > 0
  /\ photos' = [photos EXCEPT ![s] = @ - 1]
  /\ UNCHANGED <<field, createStatus>>

\* The report is sent: an address is required, and the button is disabled while one is sent.
Submit ==
  /\ createStatus # "loading" /\ createStatus # "succeeded"
  /\ location.address # Typed("")
  /\ createStatus' = "loading"
  /\ UNCHANGED <<field, photos>>

\* The server's answer; once it is filed, the page of the report takes over.
Answer(status) ==
  /\ createStatus = "loading" /\ createStatus' = status
  /\ UNCHANGED <<field, photos>>

Open == createStatus # "succeeded"

Next ==
  \/ Open /\ \/ \E t \in Text \cup {""} : Type(t)
             \/ \E t \in Text : Choose(t)
             \/ UseDevice \/ Remove
             \/ AddPhotos
             \/ \E s \in Size : RemovePhoto(s)
             \/ Submit
  \/ Lookup
  \/ \E t \in Text : LookupEnds(t, {t}) \/ LookupEnds(t, {})
  \/ Positioned \/ NotPositioned
  \/ \E found \in BOOLEAN : Located(found)
  \/ \E status \in {"succeeded", "failed"} : Answer(status)

Spec == Init /\ [][Next]_vars

\* Timers fire, and the browser and the server answer or fail.
Fairness ==
  /\ WF_vars(Lookup)
  /\ \A t \in Text : WF_vars(LookupEnds(t, {t}) \/ LookupEnds(t, {}))
  /\ WF_vars(Positioned \/ NotPositioned)
  /\ WF_vars(\E found \in BOOLEAN : Located(found))
  /\ WF_vars(\E status \in {"succeeded", "failed"} : Answer(status))

FairSpec == Spec /\ Fairness

-----------------------------------------------------------------------------
(* Properties *)

\* Coordinates are never guessed: those of a suggestion go with the address of that suggestion,
\* whatever is typed, picked and answered in between (handleTyping, choose).
PairDescribesAddress ==
  \A t \in Text : location.pair = PairOf(t) => location.address = Suggested(t)

\* Several selections never add up to more than one report may carry (handleImageChange).
PhotosWithinLimits == Count(photos) <= MaxPhotos /\ Total(photos) <= MaxTotal

\* Every search for the position ends with the button usable again, found or not (useDevice).
SearchEnds == search # "idle" ~> search = "idle"

\* The reporter may discard a device position: it does not come back unless asked for.
\* Does not hold: README, section 6.
DiscardedStays == discarded => location.pair # Device

=============================================================================
