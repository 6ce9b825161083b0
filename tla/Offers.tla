------------------------------- MODULE Offers -------------------------------
(***************************************************************************)
(* What a transfer offer holds: the previews that a sender prepares and     *)
(* packs (src/src/infrastructure/quic/preparation.rs), what a receiver     *)
(* demands of an offer and a sender of the answer (validate_offer and      *)
(* verify_accept, src/src/infrastructure/quic.rs:389-487).                 *)
(*                                                                         *)
(* Sizes are in units: one of a file is a chunk, one of a preview and of   *)
(* the frame a part of their limits.                                       *)
(***************************************************************************)
EXTENDS Naturals, FiniteSetsExt, SequencesExt

CONSTANTS
  FileCount,         \* files of the selection
  Keys,              \* portable spellings of file names
  MaxFileCount,      \* MAX_FILE_COUNT
  MaxTotalBytes,     \* MAX_TOTAL_BYTES
  MaxPreviewBytes,   \* MAX_PREVIEW_BYTES, for one preview
  MaxTotalPreviewBytes, \* MAX_TOTAL_PREVIEW_BYTES, for all of them
  EntryLen,          \* a manifest entry in the control frame
  MaxControlFrameSize

ASSUME OffersAssumption ==
  /\ FileCount \in 1 .. MaxFileCount
  /\ MaxPreviewBytes \in 1 .. MaxTotalPreviewBytes
  /\ {MaxTotalPreviewBytes, MaxTotalBytes, EntryLen, MaxControlFrameSize} \subseteq Nat

Files == 1 .. FileCount

\* A name as portable_path_key and sanitize_relative_path see it.
Names == [key : Keys, safe : BOOLEAN]

\* The size of the thumbnail an image would have; 0 for what is no image.
Thumbnails == 0 .. MaxPreviewBytes + 1

\* The sum of x over all files, one after the other.
Total(x) ==
  LET upTo[k \in 0 .. FileCount] == IF k = 0 THEN 0 ELSE upTo[k - 1] + x[k]
  IN  upTo[FileCount]

Bytes(size, S) == Total([f \in Files |-> IF f \in S THEN size[f] ELSE 0])

\* The first files that are images: as many as the budget has room for.
Previewed(thumbnail) ==
  LET earlier(f) == {g \in Files : g < f /\ thumbnail[g] > 0}
  IN  {f \in Files : /\ thumbnail[f] > 0
                     /\ Cardinality(earlier(f)) < MaxTotalPreviewBytes \div MaxPreviewBytes}

\* image_thumbnail gives none that is over the limit.
Prepared(thumbnail) == {f \in Previewed(thumbnail) : thumbnail[f] <= MaxPreviewBytes}

FrameLen(thumbnail, S) == FileCount * EntryLen + Bytes(thumbnail, S)

Offer(name, size, thumbnail, S) ==
  [name |-> name, size |-> size, total |-> Bytes(size, Files),
   preview |-> [f \in S |-> thumbnail[f]]]

NoOffer == Offer(<<>>, [f \in Files |-> 0], <<>>, {})

\* Mutation: previews are packed whatever there is room for.
PackAll(name, size, thumbnail) ==
  Offer(name, size, thumbnail, {f \in Files : thumbnail[f] > 0})

\* The preview of f joins those that are packed, if it is there and fits.
Pack(thumbnail, packed, f) ==
  LET more == packed \union {f}
  IN  IF /\ f \in Prepared(thumbnail)
         /\ Bytes(thumbnail, more) <= MaxTotalPreviewBytes
         /\ FrameLen(thumbnail, more) <= MaxControlFrameSize
        THEN more ELSE packed

\* Previews in the order of the files, each that fits.
BuildOffer(name, size, thumbnail) ==
  LET packed[k \in 0 .. FileCount] ==
        IF k = 0 THEN {} ELSE Pack(thumbnail, packed[k - 1], k)
  IN  Offer(name, size, thumbnail, packed[FileCount])

\* build_offer gives up on a manifest that does not fit by itself.
Fits(offer) ==
  FrameLen(offer.preview, DOMAIN offer.preview) <= MaxControlFrameSize

PortableNames(name) ==
  /\ \A f \in Files : name[f].safe
  /\ \A f, g \in Files : name[f].key = name[g].key => f = g

ValidOffer(offer) ==
  /\ offer.total <= MaxTotalBytes
  /\ PortableNames(offer.name)
  /\ offer.total = Bytes(offer.size, Files)
  /\ Bytes(offer.preview, DOMAIN offer.preview) <= MaxTotalPreviewBytes
  /\ \A f \in DOMAIN offer.preview : f \in Files /\ offer.preview[f] <= MaxPreviewBytes

\* One grant for each file of the manifest, and for no other.
ValidAccept(granted) == granted = Files
=============================================================================
