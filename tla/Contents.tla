------------------------------ MODULE Contents -------------------------------
(***************************************************************************)
(* What is in a message and what is in a configuration, and whether those  *)
(* who read them understand what was written: Relay has the places of the  *)
(* files and the formats of the messages, FileIdentity the checksum,       *)
(* Configurations the text that sr3 and each instance reads.  They share   *)
(* no state: a behaviour is of one of the three, the others are "off".     *)
(***************************************************************************)
EXTENDS Relay, FileIdentity

CONSTANTS
    NoValue,        \* None in Configurations: Placement has a None of its own
    Encoded, Included, Variable, PluginKind, Sites, Urls, MaxLookups

VARIABLES
    db, cfg, frames, phase, site, process, reading, todo, base, managed, asked,
    subject         \* which of the three

cVars == <<db, cfg, frames, phase, site, process, reading, todo, base, managed, asked>>

Reader == INSTANCE Configurations WITH None <- NoValue

-----------------------------------------------------------------------------
Init ==
    /\ subject \in {"place", "identity", "configuration"}
    /\ RelayInitAs(IF subject = "place" THEN "idle" ELSE "off")
    /\ IdInitAs(IF subject = "identity" THEN "idle" ELSE "off")
    /\ IF subject = "configuration" THEN Reader!ConfigurationsInit ELSE Reader!ConfigurationsOff

Relaying == subject = "place" /\ RelayNext /\ UNCHANGED <<subject, iVars, cVars>>
Identifying == subject = "identity" /\ IdNext /\ UNCHANGED <<subject, rVars, cVars>>
Configuring == subject = "configuration" /\ Reader!Next /\ UNCHANGED <<subject, rVars, iVars>>

Next == Relaying \/ Identifying \/ Configuring

Spec == Init /\ [][Next]_<<subject, rVars, iVars, cVars>>

-----------------------------------------------------------------------------
TypeOK == RelayTypeOK /\ IdTypeOK /\ Reader!TypeOK

(* Wherever a file is put, its host announces it where it can be had, and the hosts that
   take all end up with the tree of the first (updateFieldsAccepted, updatePaths and
   work_message_adjust; Fetchable and Mirrored in Relay). *)
PlacesRight == Fetchable /\ Mirrored

(* The checksum of a message is that of the file when it was announced, and none of the
   formats changes it.  That of a block begins with the block and covers it; it covers more
   too (computeIdentity, FileMetadata, postformat; ChecksumKept in Relay, the others, with
   their exceptions, in FileIdentity). *)
ContentsRight == ChecksumKept /\ IdentityRight /\ BlocksCovered /\ InlineMatches

(* The subscriptions, the publishers and the masks of an instance are those that the text of
   its configuration says, each option in force from its line on (parse_line, finalize; see
   Configurations). *)
AsWritten == Reader!SubscribedAsWritten /\ Reader!PublishedAsWritten /\ Reader!MasksAsWritten

(* Neither what was read before nor what was looked up before changes the meaning of a
   configuration or of a URL: the manager agrees with the instance, and a look-up with a later
   one (deepcopy of the defaults, CredentialDB; see Configurations). *)
UnderstoodAlike == Reader!ManagerAgrees /\ Reader!LookupsStable
=============================================================================
