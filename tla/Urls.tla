---------------------------------- MODULE Urls ----------------------------------
(***************************************************************************)
(* url() and signedUploadUrl() of the adapters, and the plugin             *)
(* signed-url-policy before them: whether a call is refused, whether the   *)
(* object is looked up, how long the URL lives, and which of the caller's  *)
(* wishes are part of it.                                                  *)
(*                                                                         *)
(* The operators are pure.  The assumptions look at every configuration    *)
(* and wish.  Times are hours, but for Azure's keys, which are in minutes. *)
(***************************************************************************)
EXTENDS Integers, Sequences, FiniteSets
LOCAL INSTANCE SequencesExt

\* defaultUrlExpiresIn, and no wish.
DefaultLife == 1
Unasked == 0

\* base: publicBaseUrl or urlBaseUrl is set.  public: publicByDefault, public, an
\* access, an acl or a type that makes objects public, or a known store.  signs: there
\* are credentials to sign with.
Configurations == [base : BOOLEAN, public : BOOLEAN, signs : BOOLEAN]

\* UrlOptions and SignUploadOptions.
Dispositions == {"none", "inline", "attachment"}
Lives == {Unasked, 1, 3, 6}
Sizes == {Unasked, 2, 5}
Wishes == [life : Lives, disposition : Dispositions]
Terms == [life : Lives \ {Unasked}, size : Sizes]

\* What comes back.  life: the hours that the URL is good for.  looked: whether the
\* provider was asked for the object.  size: what bounds an upload, if anything.
Forever == 1000
Declined == [code |-> "Provider"]
Missing == [code |-> "NotFound"]
Link(life, disposition, looked) ==
    [code |-> "ok", life |-> life, disposition |-> disposition, looked |-> looked]
Permanent == Link(Forever, "none", FALSE)

LifeAsked(wish) == IF wish.life = Unasked THEN DefaultLife ELSE wish.life
Signed(wish) == Link(LifeAsked(wish), wish.disposition, FALSE)
Wants(wish) == wish.disposition # "none"
\* A provider that is asked for the object tells when it is not there.
LookedUp(link, there) == IF there THEN [link EXCEPT !.looked = TRUE] ELSE Missing

(***************************************************************************)
(* url().                                                                  *)
(***************************************************************************)

\* resolveUrlStrategy().
Strategy(c, wish) == IF c.base /\ ~Wants(wish) THEN "public" ELSE "sign"

S3Url(c, wish, there) == IF Strategy(c, wish) = "public" THEN Permanent ELSE Signed(wish)
GcsUrl(c, wish, there) == S3Url(c, wish, there)
FirebaseUrl(c, wish, there) == S3Url(c, wish, there)
BunUrl(c, wish, there) == S3Url(c, wish, there)
AzureUrl(c, wish, there) ==
    IF Strategy(c, wish) = "sign" /\ ~c.signs THEN Declined ELSE S3Url(c, wish, there)
R2BindingUrl(c, wish, there) ==
    CASE Wants(wish) /\ ~c.signs -> Declined
      [] c.base /\ ~Wants(wish) -> Permanent
      [] ~(c.base /\ ~Wants(wish)) /\ c.signs -> Signed(wish)
      [] OTHER -> Declined
\* downloadOptionFor() knows nothing but an attachment.
SupabaseUrl(c, wish, there) ==
    CASE (c.base \/ c.public) /\ ~Wants(wish) -> Permanent
      [] wish.disposition = "inline" -> Declined
      [] OTHER -> LookedUp(Signed(wish), there)
MemoryUrl(c, wish, there) ==
    LookedUp([Signed(wish) EXCEPT !.life = IF wish.life = Unasked THEN Forever ELSE @], there)

\* The others have nowhere to bind a disposition, and all but one say so.
FsUrl(c, wish, there) == IF Wants(wish) THEN Declined ELSE Permanent
StaticUrl(c, wish, there) == IF Wants(wish) \/ ~c.base THEN Declined ELSE Permanent
FtpUrl(c, wish, there) == StaticUrl(c, wish, there)
SftpUrl(c, wish, there) == StaticUrl(c, wish, there)
BunnyUrl(c, wish, there) == StaticUrl(c, wish, there)
AppwriteUrl(c, wish, there) == IF c.public /\ c.signs THEN Permanent ELSE Declined
NetlifyUrl(c, wish, there) == Declined

\* Links that Box and Dropbox hand out live as long as those like.
BoxLife == 24
BoxUrl(c, wish, there) ==
    CASE Wants(wish) -> Declined
      [] ~Wants(wish) /\ c.base -> Permanent
      [] OTHER -> LookedUp(Link(IF c.public THEN Forever ELSE BoxLife, "none", FALSE), there)
MaxTemporaryLink == 4
DropboxUrl(c, wish, there) ==
    CASE Wants(wish) \/ LifeAsked(wish) > MaxTemporaryLink -> Declined
      [] ~(Wants(wish) \/ LifeAsked(wish) > MaxTemporaryLink) /\ c.base -> Permanent
      [] OTHER ->
           LookedUp(Link(IF c.public THEN Forever ELSE MaxTemporaryLink, "none", FALSE), there)
SharedUrl(c, wish, there) ==
    IF Wants(wish) \/ ~c.public THEN Declined ELSE LookedUp(Permanent, there)
DriveUrl(c, wish, there) == SharedUrl(c, wish, there)
OneDriveUrl(c, wish, there) == SharedUrl(c, wish, there)

CloudinaryUrl(c, wish, there) ==
    CASE Wants(wish) -> Declined
      [] ~Wants(wish) /\ c.public -> Permanent
      [] OTHER -> LookedUp(Signed(wish), there)
\* generateSignedURL() is given the key alone.
UploadThingUrl(c, wish, there) ==
    CASE Wants(wish) -> Declined
      [] ~Wants(wish) /\ c.public -> Permanent
      [] OTHER -> Signed(wish)
\* base: the id of the store is known, and keys get no random suffix.
VercelUrl(c, wish, there) ==
    CASE Wants(wish) \/ ~c.public -> Declined
      [] c.public /\ ~Wants(wish) /\ c.base -> Permanent
      [] OTHER -> LookedUp(Permanent, there)
ConvexUrl(c, wish, there) == IF Wants(wish) THEN Declined ELSE LookedUp(Permanent, there)
\* The token that protects a file lives as long as PocketBase likes; where none is to be
\* had, the URL is the plain one.
PocketBaseLife == 2
PocketBaseUrl(c, wish, there) ==
    CASE Wants(wish) -> Declined
      [] ~Wants(wish) /\ c.base -> Permanent
      [] OTHER -> LookedUp(Link(IF c.signs THEN PocketBaseLife ELSE Forever, "none", FALSE),
                           there)

\* publicBaseUrl and signedUrl of r2 over HTTP are those of the S3 adapter it loads.
Minters == {"s3", "r2", "r2-binding", "gcs", "firebase-storage", "bun-s3", "azure", "supabase",
          "memory", "fs", "ftp", "sftp", "bunny-storage", "appwrite", "netlify-blobs", "box",
          "dropbox", "google-drive", "onedrive", "cloudinary", "uploadthing", "vercel-blob",
          "convex", "pocketbase"}
Url(name, c, wish, there) ==
    CASE name \in {"s3", "r2"} -> S3Url(c, wish, there)
      [] name = "r2-binding" -> R2BindingUrl(c, wish, there)
      [] name = "gcs" -> GcsUrl(c, wish, there)
      [] name = "firebase-storage" -> FirebaseUrl(c, wish, there)
      [] name = "bun-s3" -> BunUrl(c, wish, there)
      [] name = "azure" -> AzureUrl(c, wish, there)
      [] name = "supabase" -> SupabaseUrl(c, wish, there)
      [] name = "memory" -> MemoryUrl(c, wish, there)
      [] name = "fs" -> FsUrl(c, wish, there)
      [] name = "ftp" -> FtpUrl(c, wish, there)
      [] name = "sftp" -> SftpUrl(c, wish, there)
      [] name = "bunny-storage" -> BunnyUrl(c, wish, there)
      [] name = "appwrite" -> AppwriteUrl(c, wish, there)
      [] name = "netlify-blobs" -> NetlifyUrl(c, wish, there)
      [] name = "box" -> BoxUrl(c, wish, there)
      [] name = "dropbox" -> DropboxUrl(c, wish, there)
      [] name = "google-drive" -> DriveUrl(c, wish, there)
      [] name = "onedrive" -> OneDriveUrl(c, wish, there)
      [] name = "cloudinary" -> CloudinaryUrl(c, wish, there)
      [] name = "uploadthing" -> UploadThingUrl(c, wish, there)
      [] name = "vercel-blob" -> VercelUrl(c, wish, there)
      [] name = "convex" -> ConvexUrl(c, wish, there)
      [] name = "pocketbase" -> PocketBaseUrl(c, wish, there)

\* capabilities.signedUrl: whether it is supported, and the longest life.
Claims(name, c) ==
    [supported |-> CASE name = "r2-binding" -> c.signs
                     [] name = "cloudinary" -> ~c.public
                     [] OTHER -> name \in {"s3", "r2", "gcs", "firebase-storage", "bun-s3",
                                           "azure", "supabase", "box", "dropbox",
                                           "uploadthing", "pocketbase"},
     longest |-> IF name = "dropbox" THEN MaxTemporaryLink ELSE Forever]

(***************************************************************************)
(* signedUploadUrl().                                                      *)
(***************************************************************************)

\* size: what the provider holds the upload to.
UploadTo(life, size) == [code |-> "ok", life |-> life, size |-> size]
\* A POST policy when there is a size to hold it to, else a PUT.
PolicyTarget(c, terms) == UploadTo(terms.life, terms.size)
Unsized(c, terms) == IF terms.size # Unasked THEN Declined ELSE UploadTo(terms.life, Unasked)

S3Target(c, terms) == PolicyTarget(c, terms)
GcsTarget(c, terms) == PolicyTarget(c, terms)
FirebaseTarget(c, terms) == PolicyTarget(c, terms)
R2Target(c, terms) == Unsized(c, terms)
R2BindingTarget(c, terms) == IF ~c.signs THEN Declined ELSE R2Target(c, terms)
AzureTarget(c, terms) ==
    IF terms.size # Unasked \/ ~c.signs THEN Declined ELSE UploadTo(terms.life, Unasked)
BunTarget(c, terms) == Unsized(c, terms)
SupabaseTargetLife == 2
SupabaseTarget(c, terms) ==
    IF terms.size # Unasked THEN Declined ELSE UploadTo(SupabaseTargetLife, Unasked)
\* A resumable session of the drive.
SessionLife == 168
DriveTarget(c, terms) ==
    IF terms.size # Unasked \/ ~c.signs THEN Declined ELSE UploadTo(SessionLife, Unasked)
OneDriveTarget(c, terms) ==
    IF terms.size # Unasked THEN Declined ELSE UploadTo(SessionLife, Unasked)
\* The size is told to the server, which goes by the configuration of the route.
UploadThingTarget(c, terms) == UploadTo(terms.life, Unasked)
CloudinaryTarget(c, terms) == IF ~c.signs THEN Declined ELSE UploadTo(DefaultLife, Unasked)
\* signs: the context is a mutation or an action.
ConvexTarget(c, terms) == IF ~c.signs THEN Declined ELSE UploadTo(DefaultLife, Unasked)
MemoryTarget(c, terms) == UploadTo(terms.life, Unasked)
\* The size is a parameter that whoever serves the directory may read.
FsTarget(c, terms) == IF ~c.base THEN Declined ELSE UploadTo(terms.life, Unasked)

NoTarget == {"box", "dropbox", "vercel-blob", "netlify-blobs", "bunny-storage", "appwrite",
             "pocketbase", "ftp", "sftp"}
UploadUrl(name, c, terms) ==
    CASE name = "s3" -> S3Target(c, terms)
      [] name = "gcs" -> GcsTarget(c, terms)
      [] name = "firebase-storage" -> FirebaseTarget(c, terms)
      [] name = "r2" -> R2Target(c, terms)
      [] name = "r2-binding" -> R2BindingTarget(c, terms)
      [] name = "azure" -> AzureTarget(c, terms)
      [] name = "bun-s3" -> BunTarget(c, terms)
      [] name = "supabase" -> SupabaseTarget(c, terms)
      [] name = "google-drive" -> DriveTarget(c, terms)
      [] name = "onedrive" -> OneDriveTarget(c, terms)
      [] name = "uploadthing" -> UploadThingTarget(c, terms)
      [] name = "cloudinary" -> CloudinaryTarget(c, terms)
      [] name = "convex" -> ConvexTarget(c, terms)
      [] name = "memory" -> MemoryTarget(c, terms)
      [] name = "fs" -> FsTarget(c, terms)
      [] name \in NoTarget -> Declined

(***************************************************************************)
(* signed-url-policy.                                                      *)
(***************************************************************************)

\* disposition: what is forced, "none" where that is turned off.  life and size: the
\* caps, or Unasked.
Policies == [disposition : {"none", "inline", "attachment"}, life : Lives, size : Sizes]

Clamped(asked, cap) == IF asked = Unasked \/ cap < asked THEN cap ELSE asked
OnUrl(policy, wish) ==
    [disposition |-> IF policy.disposition = "none" \/ wish.disposition = "attachment"
                       THEN wish.disposition ELSE policy.disposition,
     life |-> IF policy.life = Unasked THEN wish.life ELSE Clamped(wish.life, policy.life)]
OnUpload(policy, terms) ==
    [life |-> IF policy.life = Unasked THEN terms.life ELSE Clamped(terms.life, policy.life),
     size |-> IF policy.size = Unasked THEN terms.size ELSE Clamped(terms.size, policy.size)]

(***************************************************************************)
(* Public URLs.                                                            *)
(***************************************************************************)

\* UrlKeys and base URLs are split at their slashes.  A path is a sequence of segments, and
\* a segment the parts of the key that it holds.
UrlKeys == UNION {[1 .. n -> {"a", "b", "", ".", ".."}] : n \in 1 .. 3}
Bases == {<<"host">>, <<"host", "">>, <<"host", "files", "">>}
Trimmed(base) == IF Len(base) > 1 /\ Last(base) = "" THEN Front(base) ELSE base
PathSegments(parts) == [n \in 1 .. Len(parts) |-> <<parts[n]>>]

JoinPublicUrl(base, key) == PathSegments(Trimmed(base)) \o PathSegments(key)
\* PocketBase encodes the slashes of the key along with the rest.
PocketBaseJoin(base, key) == Append(PathSegments(Trimmed(base)), key)

\* Whoever fetches a URL takes its relative segments for steps, and encodes none.
Followed(path) ==
    LET Step(walked, segment) ==
            CASE segment = <<"..">> -> IF Len(walked) > 1 THEN Front(walked) ELSE walked
              [] segment = <<".">> -> walked
              [] OTHER -> Append(walked, segment)
    IN  FoldLeft(Step, <<>>, path)

(***************************************************************************)
(* getUserDelegationKey() of Azure, in minutes.                            *)
(***************************************************************************)

Slack == 5
KeyTtl == 60
KeyMax == 7 * 24 * 60
Backdated == 1

\* key: when the cached key expires, 0 where there is none.
DelegationKey(key, now, life) ==
    LET required == now + life + Slack
        longest == now - Backdated + KeyMax
    IN  CASE key > required -> key
          [] key <= required /\ required + KeyTtl < longest -> required + KeyTtl
          [] OTHER -> longest

\* The time of each call and the key it leaves in the cache, for a sequence of calls
\* [after, life], one some minutes after the other.
KeyCache(calls) ==
    LET after[n \in 0 .. Len(calls)] ==
            IF n = 0 THEN [now |-> 0, key |-> 0]
            ELSE LET now == after[n - 1].now + calls[n].after
                 IN  [now |-> now, key |-> DelegationKey(after[n - 1].key, now, calls[n].life)]
    IN  after

\* What each call signs, and with which key.
SignedWith(calls) ==
    LET after == KeyCache(calls)
    IN  [n \in 1 .. Len(calls) |->
           [at |-> after[n].now, until |-> after[n].now + calls[n].life,
            key |-> after[n].key, fetched |-> after[n].key # after[n - 1].key]]

(***************************************************************************)
(* What a caller can rely on.                                              *)
(***************************************************************************)

\* A disposition that was asked for is part of the URL or the call fails, so that a file
\* is never shown where the caller wanted it downloaded; but Appwrite drops it.
ASSUME DispositionBound ==
    \A name \in Minters, c \in Configurations, wish \in Wishes, there \in BOOLEAN :
        LET link == Url(name, c, wish, there)
        IN  (Wants(wish) /\ link.code = "ok") =>
                (link.disposition # wish.disposition <=> name = "appwrite")

\* A URL lives no longer than was asked, unless it is a public one, which has no end; or
\* Box, Dropbox or PocketBase chose for themselves, or the provider knows no other.
ASSUME LivesAsAsked ==
    \A name \in Minters, c \in Configurations, wish \in Wishes, there \in BOOLEAN :
        LET link == Url(name, c, wish, there)
        IN  (link.code = "ok" /\ link.life > LifeAsked(wish)) =>
                \/ link.life = Forever /\ (c.base \/ c.public)
                \/ name \in {"box", "dropbox", "pocketbase"} /\ link.looked
                \/ name \in {"fs", "convex"}
                \/ name = "memory" /\ wish.life = Unasked

\* capabilities.signedUrl is the truth where nothing makes the URLs public: a URL with an
\* end comes from an adapter that claims to sign, and one that claims to signs for any
\* life up to its longest, where it has the credentials; PocketBase's need not end.
ASSUME ClaimsKept ==
    \A name \in Minters, c \in Configurations, life \in Lives :
        LET wish == [life |-> life, disposition |-> "none"]
            link == Url(name, c, wish, TRUE)
            claims == Claims(name, c)
        IN  /\ (link.code = "ok" /\ link.life < Forever /\ name # "memory") => claims.supported
            /\ (claims.supported /\ c.signs /\ ~c.base /\ ~c.public) =>
                  /\ link.code = "ok" <=> LifeAsked(wish) <= claims.longest
                  /\ link.code = "ok" => link.life < Forever
            /\ (/\ claims.supported /\ ~c.signs /\ ~c.base /\ ~c.public
                /\ LifeAsked(wish) <= claims.longest) =>
                  (link.code = "ok" /\ link.life < Forever
                      <=> name \notin {"azure", "pocketbase"})

\* The URL of an object that is not there is handed out where it is signed or put together
\* without a request; the providers that look the object up say that it is missing.
ASSUME MissingObject ==
    \A name \in Minters, c \in Configurations, wish \in Wishes :
        LET link == Url(name, c, wish, FALSE)
            present == Url(name, c, wish, TRUE)
        IN  /\ present.code = "ok" => (present.looked <=> link = Missing)
            /\ ~(present.code = "ok" /\ present.looked) => link = present

\* These providers look the object up in some configuration.
ASSUME WhoLooks ==
    \A name \in Minters :
        (\E c \in Configurations, wish \in Wishes : Url(name, c, wish, FALSE) = Missing)
            <=> name \in {"supabase", "memory", "box", "dropbox", "google-drive", "onedrive",
                          "cloudinary", "vercel-blob", "convex", "pocketbase"}

\* Where there is a public base URL, url() needs nothing else: neither credentials nor the
\* object, and the URL never ends.
ASSUME BaseSuffices ==
    \A c \in Configurations, life \in Lives, there \in BOOLEAN :
    \A name \in Minters \ {"memory", "appwrite", "netlify-blobs", "google-drive", "onedrive",
                         "cloudinary", "uploadthing", "convex"} :
        LET link == Url(name, c, [life |-> life, disposition |-> "none"], there)
        IN  c.base => CASE name = "dropbox" -> link \in {Permanent, Declined}
                        [] name = "vercel-blob" -> link \in {Permanent, Declined}
                        [] OTHER -> link = Permanent

\* Dropbox refuses a life beyond that of its links also where it would not have ended.
ASSUME DropboxRefusal ==
    \A c \in Configurations, wish \in Wishes :
        ~Wants(wish) =>
            (DropboxUrl(c, wish, TRUE) = Declined <=> wish.life > MaxTemporaryLink)

\* Behind the policy every URL is a download, whatever the caller asked for, and the call
\* fails where that cannot be; but not on Appwrite.  With "inline" the policy lets a
\* caller's attachment stand.
ASSUME PolicyDisposition ==
    \A name \in Minters, c \in Configurations, wish \in Wishes, policy \in Policies :
        LET asked == OnUrl(policy, wish)
            link == Url(name, c, asked, TRUE)
        IN  policy.disposition = "attachment" =>
                /\ asked.disposition = "attachment"
                /\ link.code = "ok" =>
                      (link.disposition = "attachment" <=> name # "appwrite")

\* With a disposition forced, no public URL is left, and the cap on the life holds for
\* every URL that is handed out, but for Appwrite's; without one it holds only where
\* LivesAsAsked has no exception.
ASSUME PolicyLife ==
    \A name \in Minters, c \in Configurations, wish \in Wishes, policy \in Policies :
        LET link == Url(name, c, OnUrl(policy, wish), TRUE)
        IN  (policy.life # Unasked /\ link.code = "ok" /\ link.life > policy.life) =>
                \/ name = "appwrite"
                \/ /\ policy.disposition = "none" /\ ~Wants(wish)
                   /\ \/ c.base \/ c.public
                      \/ name \in {"box", "dropbox", "pocketbase", "fs", "convex"}

\* The policy only takes away: a URL or a target that an adapter would have made for the
\* caller's own wishes is refused or lives no longer, and the policy twice is the policy.
ASSUME PolicyOnlyTakes ==
    \A policy \in Policies :
        /\ \A wish \in Wishes :
              /\ OnUrl(policy, OnUrl(policy, wish)) = OnUrl(policy, wish)
              /\ wish.life # Unasked => OnUrl(policy, wish).life <= wish.life
        /\ \A terms \in Terms :
              /\ OnUpload(policy, OnUpload(policy, terms)) = OnUpload(policy, terms)
              /\ OnUpload(policy, terms).life <= terms.life
              /\ terms.size # Unasked => OnUpload(policy, terms).size <= terms.size

\* A size that was asked for holds or the call fails; but Cloudinary, Convex and the memory
\* adapter do not look at it, and fs and UploadThing leave it to whoever takes the upload.
\* So a policy with a size is not kept there either.
ASSUME SizeHolds ==
    \A name \in Minters, c \in Configurations, terms \in Terms, policy \in Policies :
        LET asked == OnUpload(policy, terms)
            target == UploadUrl(name, c, asked)
        IN  (asked.size # Unasked /\ target.code = "ok") =>
                (target.size # asked.size
                    <=> name \in {"cloudinary", "convex", "memory", "fs", "uploadthing"})

\* An upload URL lives as long as was asked, or as long as the provider's always do.
ASSUME TargetLife ==
    \A name \in Minters, c \in Configurations, terms \in Terms :
        LET target == UploadUrl(name, c, terms)
        IN  target.code = "ok" =>
                (\E other \in Lives \ {Unasked} :
                    UploadUrl(name, c, [terms EXCEPT !.life = other]).life # other)
                  <=> name \in {"supabase", "google-drive", "onedrive", "cloudinary", "convex"}

\* The public URLs of two keys lead to two places, and each to that of its key, unless a
\* key has relative segments: its URL leads to another key's object.  PocketBase's lead to
\* the place of the key only where it has no slash.
Relative(key) == {".", ".."} \cap {key[n] : n \in 1 .. Len(key)} # {}
ASSUME PublicUrlsApart ==
    \A base \in Bases :
        /\ \A key \in UrlKeys :
              Followed(JoinPublicUrl(base, key)) = JoinPublicUrl(base, key) <=> ~Relative(key)
        /\ \A key, other \in {k \in UrlKeys : ~Relative(k)} :
              JoinPublicUrl(base, key) = JoinPublicUrl(base, other) => key = other
        /\ \A key \in {k \in UrlKeys : ~Relative(k)} :
              PocketBaseJoin(base, key) = JoinPublicUrl(base, key) <=> Len(key) = 1

\* The key that signs a SAS outlives it, with the slack for clocks that differ, and is
\* never asked for longer than Azure gives one; but a SAS of seven days is signed with a
\* key that ends before it, and so stops working earlier than was asked.
SasCalls == [after : {0, 20, 90}, life : {5, 60, KeyMax - 66, KeyMax - 6, KeyMax - 1, KeyMax}]
ASSUME KeyOutlivesSas ==
    \A n \in 1 .. 3 : \A calls \in [1 .. n -> SasCalls] :
        LET signed == SignedWith(calls)
        IN  \A m \in 1 .. n :
                /\ signed[m].key < signed[m].until <=> calls[m].life > KeyMax - Backdated
                /\ signed[m].key < signed[m].until + Slack
                      <=> calls[m].life > KeyMax - Backdated - Slack
                /\ signed[m].fetched => signed[m].key <= signed[m].at - Backdated + KeyMax

\* SasCalls for the same life within the hour share a key; where the life leaves no room for
\* the hour, every call fetches one.
ASSUME KeysReused ==
    \A call \in SasCalls, after \in {0, 20, 59, 60, 90} :
        LET signed == SignedWith(<<call, [call EXCEPT !.after = after]>>)
        IN  signed[2].fetched <=>
                after # 0 /\ after >= (IF call.life <= KeyMax - Backdated - Slack - KeyTtl
                                         THEN KeyTtl
                                         ELSE KeyMax - Backdated - Slack - call.life)
=============================================================================
