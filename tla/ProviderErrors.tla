---------------------------- MODULE ProviderErrors ----------------------------
(***************************************************************************)
(* The codes that the adapters give to a provider's failures.  Much hangs  *)
(* on them: only a Provider failure is retried, fails over and counts as   *)
(* passing; NotFound is exists()'s false, versioning's "nothing to save",  *)
(* soft-delete's "nothing to move", tiering's "look in the other tier".    *)
(*                                                                         *)
(* A failure reaches an adapter as an HTTP status, or 0, and a word: a     *)
(* code, a name, a tag, what a message says, or "".  How a failure shows   *)
(* is the provider's; what is made of it is the mapper's.                  *)
(***************************************************************************)
EXTENDS Integers, FiniteSets

NotFound == "NotFound"
Unauthorized == "Unauthorized"
Conflict == "Conflict"
Provider == "Provider"

(***************************************************************************)
(* Failures, by what the caller could do about them.                       *)
(***************************************************************************)

Passing == {"throttled", "overloaded", "unreachable", "busy"}
Lasting == {"missing", "denied", "stranger", "taken", "malformed"}
Failure == Passing \cup Lasting

Shown(status, word) == [status |-> status, word |-> word]
Said(words) == {Shown(0, w) : w \in words}

\* How an HTTP service shows them.
Http ==
    [missing |-> {Shown(404, "")}, denied |-> {Shown(403, "")}, stranger |-> {Shown(401, "")},
     taken |-> {Shown(409, ""), Shown(412, "")}, malformed |-> {Shown(400, "")},
     throttled |-> {Shown(429, "")}, overloaded |-> {Shown(500, ""), Shown(503, "")},
     busy |-> {Shown(423, "")}, unreachable |-> {Shown(0, "")}]

\* How those show them that have no statuses.
Wordless == [f \in Failure |-> Said({""})]

(***************************************************************************)
(* Mappers: the words they know, the statuses that are a conflict, and     *)
(* whether the words or the codes come first.                              *)
(***************************************************************************)

Mapper(notFound, unauthorized, conflict) ==
    [words |-> [NotFound |-> notFound, Unauthorized |-> unauthorized, Conflict |-> conflict],
     conflicts |-> {409, 412}, wordsFirst |-> FALSE, shows |-> Http]

\* makeErrorMapper() without words
StatusOnly == Mapper({}, {}, {})
GcsErrors == StatusOnly
FirebaseErrors == StatusOnly
AppwriteErrors == StatusOnly
CloudinaryErrors == StatusOnly
PocketBaseErrors == StatusOnly

\* makeErrorMapper() of those whose words come with a status
S3Errors ==
    [Mapper({"NoSuchKey", "NotFound"}, {"AccessDenied"}, {"PreconditionFailed"}) EXCEPT
        !.shows.missing = {Shown(404, "NoSuchKey"), Shown(404, "NotFound")},
        !.shows.denied = {Shown(403, "AccessDenied"), Shown(403, "Forbidden")},
        !.shows.taken = {Shown(412, "PreconditionFailed")}]
BunS3Errors ==
    [S3Errors EXCEPT
        !.words.Unauthorized = {"AccessDenied", "ERR_S3_INVALID_SIGNATURE"},
        !.shows.missing = Said({"NoSuchKey"}), !.shows.denied = Said({"AccessDenied"}),
        !.shows.stranger = Said({"ERR_S3_INVALID_SIGNATURE"})]
AzureErrors ==
    [Mapper({"BlobNotFound", "ContainerNotFound"}, {"AuthorizationFailure"},
            {"BlobAlreadyExists", "ConditionNotMet", "LeaseAlreadyPresent"}) EXCEPT
        !.shows.missing = {Shown(404, "BlobNotFound"), Shown(404, "ContainerNotFound")},
        !.shows.busy = {Shown(409, "LeaseAlreadyPresent")}]
SupabaseErrors ==
    [Mapper({"NotFound", "NoSuchKey"}, {"InvalidJWT", "AccessDenied"}, {"Duplicate"}) EXCEPT
        !.shows.missing = {Shown(404, "NotFound"), Shown(400, "NoSuchKey")},
        !.shows.stranger = {Shown(400, "InvalidJWT")},
        !.shows.taken = {Shown(409, ""), Shown(400, "Duplicate")}]

\* Those that look for words in a name or a message, or have nothing else.
VercelErrors == Mapper({"NotFound"}, {"Forbidden", "Unauthorized"}, {"Precondition"})
UploadThingErrors ==
    [Mapper({"NOT_FOUND"}, {"FORBIDDEN", "UNAUTHORIZED"}, {"already exists"}) EXCEPT
        !.conflicts = {409}, !.shows.taken = {Shown(409, ""), Shown(0, "already exists")}]
NetlifyErrors == Mapper({"not found"}, {"unauthorized", "forbidden"}, {})
BunnyErrors ==
    [Mapper({"NotFound"}, {"Unauthorized"}, {"Conflict"}) EXCEPT
        !.shows = [Wordless EXCEPT !.missing = Said({"NotFound"}),
                                   !.denied = Said({"Unauthorized"}),
                                   !.stranger = Said({"Unauthorized"}),
                                   !.taken = Said({"Conflict"})]]
R2Errors ==
    [Mapper({"NoSuchKey"}, {"Forbidden", "Unauthorized"}, {"Precondition"}) EXCEPT
        !.shows = [Wordless EXCEPT !.missing = Said({"NoSuchKey"}),
                                   !.denied = Said({"Forbidden"}),
                                   !.stranger = Said({"Unauthorized"}),
                                   !.taken = Said({"Precondition"})]]
ConvexErrors ==
    [Mapper({"not found"}, {}, {}) EXCEPT
        !.shows = [Wordless EXCEPT !.missing = Said({"not found"})]]

\* The drives.  Google shows some of its limits as a 403; Dropbox wraps an endpoint's
\* own failures, told apart by their tags, in a 409; Box has codes of its own.
DriveErrors == [StatusOnly EXCEPT !.shows.throttled = {Shown(429, ""), Shown(403, "")}]
GraphErrors ==
    [Mapper({"itemNotFound"}, {"unauthenticated", "accessDenied"},
            {"nameAlreadyExists", "resourceModified"}) EXCEPT
        !.shows.missing = {Shown(404, "itemNotFound")},
        !.shows.taken = {Shown(409, "nameAlreadyExists"), Shown(412, "resourceModified")}]
DropboxErrors ==
    [Mapper({"not_found", "restricted_content"}, {"access_denied", "invalid_access_token"},
            {"conflict", "no_write_permission"}) EXCEPT
        !.wordsFirst = TRUE, !.conflicts = {412},
        !.shows.missing = {Shown(409, "not_found")},
        !.shows.denied = {Shown(403, "access_denied"), Shown(409, "no_write_permission"),
                          Shown(409, "restricted_content")},
        !.shows.stranger = {Shown(401, "invalid_access_token")},
        !.shows.taken = {Shown(409, "conflict")},
        !.shows.busy = {Shown(409, "too_many_write_operations")}]
BoxErrors ==
    [Mapper({"not_found", "trashed"}, {"unauthorized", "access_denied_item_locked"},
            {"item_name_in_use", "item_name_invalid", "operation_blocked_temporary"}) EXCEPT
        !.wordsFirst = TRUE,
        !.shows.missing = {Shown(404, "not_found"), Shown(404, "trashed")},
        !.shows.denied = {Shown(403, "")},
        !.shows.taken = {Shown(409, "item_name_in_use")},
        !.shows.malformed = {Shown(400, ""), Shown(400, "item_name_invalid")},
        !.shows.busy = {Shown(403, "access_denied_item_locked"),
                        Shown(409, "operation_blocked_temporary")}]

\* The file systems.  A server of FTP says 550 of a file that is not there and of one
\* that it does not let out, 450 of one in use.  SFTP has no word for a file that is
\* there already.
FsErrors ==
    [Mapper({"ENOENT", "ENOTDIR"}, {"EACCES", "EPERM"}, {"EEXIST"}) EXCEPT
        !.shows = [Wordless EXCEPT !.missing = Said({"ENOENT", "ENOTDIR"}),
                                   !.denied = Said({"EACCES", "EPERM"}),
                                   !.stranger = Said({"EACCES"}),
                                   !.taken = Said({"EEXIST"})]]
SftpErrors ==
    [FsErrors EXCEPT !.words.Unauthorized = {"EACCES", "EPERM", "EAUTH"},
                     !.shows.stranger = Said({"EAUTH"}),
                     !.shows.taken = Said({"FAILURE"})]
FtpErrors ==
    [Mapper({"550", "450", "551"}, {"530", "532"}, {"552", "553"}) EXCEPT
        !.shows = [Wordless EXCEPT !.missing = Said({"550"}), !.denied = Said({"550"}),
                                   !.stranger = Said({"530"}), !.taken = Said({"553"}),
                                   !.busy = Said({"450"})]]

Mappers == {GcsErrors, FirebaseErrors, AppwriteErrors, CloudinaryErrors, PocketBaseErrors,
            S3Errors, BunS3Errors, AzureErrors, SupabaseErrors, VercelErrors,
            UploadThingErrors, NetlifyErrors, BunnyErrors, R2Errors, ConvexErrors,
            DriveErrors, GraphErrors, DropboxErrors, BoxErrors, FsErrors, SftpErrors,
            FtpErrors}

(***************************************************************************)
(* From a failure to its code, and what becomes of it.                     *)
(***************************************************************************)

StatusMeans(m, code, status) ==
    CASE code = NotFound -> status = 404
      [] code = Unauthorized -> status \in {401, 403}
      [] code = Conflict -> status \in m.conflicts
WordMeans(m, code, word) == word \in m.words[code]

\* The first of NotFound, Unauthorized and Conflict that it means, else Provider.
FirstMeant(Meant) ==
    CASE NotFound \in Meant -> NotFound
      [] Unauthorized \in Meant -> Unauthorized
      [] Conflict \in Meant -> Conflict
      [] OTHER -> Provider

Classify(m, shown) ==
    LET codes == {NotFound, Unauthorized, Conflict}
        byWord == {c \in codes : WordMeans(m, c, shown.word)}
        byStatus == {c \in codes : StatusMeans(m, c, shown.status)}
    IN  FirstMeant(IF m.wordsFirst /\ byWord # {} THEN byWord ELSE byWord \cup byStatus)

CodesOf(m, failure) == {Classify(m, shown) : shown \in m.shows[failure]}

\* existsByProbe(), on a failed probe: the answer or a throw.
ExistsAnswers(code) == IF code = NotFound THEN "false" ELSE "throws"
Retries(code) == code = Provider

(***************************************************************************)
(* What holds of all adapters, and of all but some.                        *)
(***************************************************************************)

\* A key that is missing is NotFound with every adapter, so that exists() answers, a
\* first upload is not refused by versioning, and tiering looks in the other tier.
ASSUME MissingIsNotFound == \A m \in Mappers : CodesOf(m, "missing") = {NotFound}

\* NotFound says that the key is missing, so that false means absent.  Not so with FTP,
\* where a file that is locked or may not be read looks missing, and with Dropbox's
\* restricted files: versioning takes no snapshot of them before they are overwritten.
ASSUME NotFoundIsMissing ==
    {<<m, f>> \in Mappers \X (Failure \ {"missing"}) :
        \E code \in CodesOf(m, f) : ExistsAnswers(code) = "false"}
      = {<<FtpErrors, "busy">>, <<FtpErrors, "denied">>, <<DropboxErrors, "denied">>}

\* What passes by itself is retried, and fails over.  Not so where Google Drive limits
\* the rate by a 403, where Box or Azure call a lock a denial or a conflict, and where
\* FTP calls a file in use missing.
ASSUME PassingIsRetried ==
    {<<m, f>> \in Mappers \X Passing : \E code \in CodesOf(m, f) : ~Retries(code)}
      = {<<DriveErrors, "throttled">>, <<BoxErrors, "busy">>, <<AzureErrors, "busy">>,
         <<FtpErrors, "busy">>}

\* What lasts is not retried, but for a malformed request, which no mapper tells from a
\* passing failure (Box knows a bad name), for Convex, whose only word is for missing
\* files, and for SFTP's file that is there already.
ASSUME LastingIsNotRetried ==
    {<<m, f>> \in Mappers \X (Lasting \ {"malformed"}) : \E code \in CodesOf(m, f) : Retries(code)}
      = {<<ConvexErrors, "denied">>, <<ConvexErrors, "stranger">>, <<ConvexErrors, "taken">>,
         <<SftpErrors, "taken">>}
=============================================================================
