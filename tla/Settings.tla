------------------------------- MODULE Settings --------------------------------
(***************************************************************************)
(* What every adapter does with the options it is passed and the           *)
(* environment it finds: whether it can be built, which of the settings    *)
(* its credential is made of, and which of them say where its requests go. *)
(* Catalog.tla holds what the package says of the same settings.           *)
(***************************************************************************)
EXTENDS Catalog
LOCAL INSTANCE FiniteSetsExt
LOCAL INSTANCE SequencesExt

(***************************************************************************)
(* A setup: the options and variables that hold a value, and those that    *)
(* are there but empty.  Options and variables share one namespace; the    *)
(* fields of an option are options of their own.                           *)
(***************************************************************************)
Setup(given, empty) == [given |-> given, empty |-> empty]
IsSet(s, name) == name \in s.given \cup s.empty
SetOf(s, names) == {name \in names : IsSet(s, name)}

\* The name a ?? chain takes a usable value from, as a set of at most one.  An empty string
\* ends the chain and is of no use.
From(s, chain) ==
    LET present == {i \in DOMAIN chain : IsSet(s, chain[i])}
    IN  IF present = {} THEN {} ELSE {chain[Min(present)]} \cap s.given
\* All of the values, or nothing.
AllOf(s, chains) ==
    LET found == {From(s, chain) : chain \in chains}
    IN  IF {} \in found THEN {} ELSE UNION found
\* chain ?? default
OrElse(s, chain, default) ==
    IF \E i \in DOMAIN chain : IsSet(s, chain[i]) THEN From(s, chain) ELSE {default}
\* The first of the sets that is not empty: a || b || c.
FirstOf(sets) ==
    LET some == {i \in DOMAIN sets : sets[i] # {}}
    IN  IF some = {} THEN {} ELSE sets[Min(some)]

\* built: it gets as far as a request.  key: what the credential is made of; nothing means
\* that the provider's SDK looks for one, or that there is none.  at: what the requests'
\* destination is made of.
Refuses == [built |-> FALSE, key |-> {}, at |-> {}]
Built(key, at) == [built |-> TRUE, key |-> key, at |-> at]
\* What a provider's SDK finds by itself.
Ambient(s, names) == IF names \subseteq s.given THEN names ELSE {}

(***************************************************************************)
(* S3 and the adapters that hand their settings on to it.                  *)
(***************************************************************************)

S3(s) ==
    IF From(s, <<"region", "AWS_REGION", "AWS_DEFAULT_REGION">>) = {} THEN Refuses
    ELSE Built(FirstOf(<<s.given \cap {"credentials"},
                         Ambient(s, {"AWS_ACCESS_KEY_ID", "AWS_SECRET_ACCESS_KEY"})>>),
               FirstOf(<<s.given \cap {"endpoint"}, {"amazon"}>>))

KeyPair(s, id, secret) == AllOf(s, {<<"accessKeyId", id>>, <<"secretAccessKey", secret>>})

\* The endpoint is made from needs unless there is one; S3 takes no empty one.
Derived(s, id, secret, needs) ==
    LET key == KeyPair(s, id, secret)
    IN  IF ~ needs \subseteq s.given \/ key = {} THEN Refuses
        ELSE IF IsSet(s, "endpoint")
        THEN Built(key, FirstOf(<<s.given \cap {"endpoint"}, {"amazon"}>>))
        ELSE Built(key, needs)
\* One gateway for everybody, and a region that only has to be there.
Gateway(s, id, secret) ==
    LET key == KeyPair(s, id, secret)
    IN  IF key = {} \/ "region" \in s.empty THEN Refuses
        ELSE Built(key, FirstOf(<<s.given \cap {"endpoint"}, {"gateway"}>>))
\* Self-hosted, or a host of the customer's own.
Hosted(s, id, secret) ==
    LET key == KeyPair(s, id, secret)
    IN  IF "endpoint" \notin s.given \/ key = {} \/ "region" \in s.empty THEN Refuses
        ELSE Built(key, {"endpoint"})

Akamai(s) == Derived(s, "AKAMAI_ACCESS_KEY_ID", "AKAMAI_SECRET_ACCESS_KEY", {"region"})
Alibaba(s) == Derived(s, "ALIBABA_ACCESS_KEY_ID", "ALIBABA_ACCESS_KEY_SECRET", {"region"})
BackblazeB2(s) == Derived(s, "B2_APPLICATION_KEY_ID", "B2_APPLICATION_KEY", {"region"})
DigitaloceanSpaces(s) == Derived(s, "DO_SPACES_KEY", "DO_SPACES_SECRET", {"region"})
Exoscale(s) == Derived(s, "EXOSCALE_API_KEY", "EXOSCALE_API_SECRET", {"region"})
Filebase(s) == Gateway(s, "FILEBASE_ACCESS_KEY_ID", "FILEBASE_SECRET_ACCESS_KEY")
Hetzner(s) == Derived(s, "HCLOUD_ACCESS_KEY_ID", "HCLOUD_SECRET_ACCESS_KEY", {"region"})
IbmCos(s) == Derived(s, "IBM_COS_ACCESS_KEY_ID", "IBM_COS_SECRET_ACCESS_KEY", {"region"})
IdriveE2(s) == Hosted(s, "IDRIVE_E2_ACCESS_KEY_ID", "IDRIVE_E2_SECRET_ACCESS_KEY")
Minio(s) == Hosted(s, "MINIO_ACCESS_KEY_ID", "MINIO_SECRET_ACCESS_KEY")
OracleCloud(s) ==
    Derived(s, "OCI_ACCESS_KEY_ID", "OCI_SECRET_ACCESS_KEY", {"namespace", "region"})
Ovhcloud(s) == Derived(s, "OVH_ACCESS_KEY_ID", "OVH_SECRET_ACCESS_KEY", {"region"})
Scaleway(s) == Derived(s, "SCW_ACCESS_KEY", "SCW_SECRET_KEY", {"region"})
Storj(s) == Gateway(s, "STORJ_ACCESS_KEY_ID", "STORJ_SECRET_ACCESS_KEY")
Tencent(s) == Derived(s, "TENCENT_SECRET_ID", "TENCENT_SECRET_KEY", {"region"})
Tigris(s) == Gateway(s, "TIGRIS_ACCESS_KEY_ID", "TIGRIS_SECRET_ACCESS_KEY")
Vultr(s) == Derived(s, "VULTR_ACCESS_KEY_ID", "VULTR_SECRET_ACCESS_KEY", {"region"})
Wasabi(s) == Derived(s, "WASABI_ACCESS_KEY_ID", "WASABI_SECRET_ACCESS_KEY", {"region"})
Yandex(s) == Gateway(s, "YANDEX_ACCESS_KEY_ID", "YANDEX_SECRET_ACCESS_KEY")

\* The key pair is taken from the options or left to the AWS SDK, as a whole.
Neon(s) ==
    LET endpoint == From(s, <<"endpoint", "AWS_ENDPOINT_URL_S3">>)
        pair == {"accessKeyId", "secretAccessKey"}
    IN  IF endpoint = {}
           \/ OrElse(s, <<"region", "AWS_REGION", "NEON_STORAGE_REGION">>, "default") = {}
        THEN Refuses
        ELSE Built(FirstOf(<<Ambient(s, pair),
                             Ambient(s, {"AWS_ACCESS_KEY_ID", "AWS_SECRET_ACCESS_KEY"})>>),
                   endpoint)
R2(s) ==
    LET account == From(s, <<"accountId", "R2_ACCOUNT_ID">>)
        key == KeyPair(s, "R2_ACCESS_KEY_ID", "R2_SECRET_ACCESS_KEY")
    IN  IF "binding" \in s.given THEN Built({"binding"}, {"binding"})
        ELSE IF account = {} \/ key = {} THEN Refuses
        ELSE Built(key, account)
\* Bun's own client reads the variables; a client that was passed owns all of this.
BunS3(s) ==
    LET construction == {"bucket", "region", "endpoint", "virtualHostedStyle", "accessKeyId",
                         "secretAccessKey", "sessionToken"}
        From2(option, vars) == FirstOf(<<s.given \cap {option}, From(s, vars)>>)
    IN  IF "client" \in s.given
        THEN IF SetOf(s, construction) # {} THEN Refuses ELSE Built({"client"}, {"client"})
        ELSE Built(From2("accessKeyId", <<"S3_ACCESS_KEY_ID", "AWS_ACCESS_KEY_ID">>)
                   \cup From2("secretAccessKey",
                              <<"S3_SECRET_ACCESS_KEY", "AWS_SECRET_ACCESS_KEY">>),
                   FirstOf(<<s.given \cap {"endpoint"}, {"amazon"}>>))

(***************************************************************************)
(* Object stores with interfaces of their own.                             *)
(***************************************************************************)

Appwrite(s) ==
    LET project == From(s, <<"projectId", "APPWRITE_PROJECT_ID",
                             "NEXT_PUBLIC_APPWRITE_PROJECT_ID">>)
        endpoint == OrElse(s, <<"endpoint", "APPWRITE_ENDPOINT",
                                "NEXT_PUBLIC_APPWRITE_ENDPOINT">>, "cloud")
    IN  IF "client" \in s.given THEN Built({"client"}, {"client"})
        ELSE IF project = {} THEN Refuses
        ELSE Built(From(s, <<"key", "APPWRITE_API_KEY", "APPWRITE_KEY">>),
                   project \cup endpoint)

AzureString(s) == From(s, <<"connectionString", "AZURE_STORAGE_CONNECTION_STRING">>)
AzureAccount(s) ==
    From(s, <<"accountName", "AZURE_STORAGE_ACCOUNT_NAME", "AZURE_STORAGE_ACCOUNT">>)
AzureKey(s) == From(s, <<"accountKey", "AZURE_STORAGE_ACCOUNT_KEY", "AZURE_STORAGE_KEY">>)
\* A connection string holds the account and its key.
Azure(s) ==
    LET account == AzureAccount(s)
        sharedKey == IF AzureKey(s) = {} THEN {} ELSE account \cup AzureKey(s)
        key == FirstOf(<<sharedKey, s.given \cap {"credential"},
                         From(s, <<"sasToken", "AZURE_STORAGE_SAS_TOKEN">>)>>)
    IN  IF "container" \notin s.given THEN Refuses
        ELSE IF AzureString(s) # {} THEN Built(AzureString(s), AzureString(s))
        ELSE IF account = {} THEN Refuses
        ELSE Built(key, FirstOf(<<s.given \cap {"endpoint"}, account>>))
\* What url() and signedUploadUrl() sign with: the account and its key, or the delegation
\* key that the credential gets.
AzureSigner(s) ==
    LET string == AzureString(s)
        InsteadOf(option) == IF IsSet(s, option) THEN s.given \cap {option} ELSE string
    IN  IF string # {}
        THEN IF {} \in {InsteadOf("accountName"), InsteadOf("accountKey")} THEN {}
             ELSE InsteadOf("accountName") \cup InsteadOf("accountKey")
        ELSE IF AzureKey(s) # {} THEN AzureAccount(s) \cup AzureKey(s)
        ELSE s.given \cap {"credential"}

BunnyStorage(s) ==
    LET zone == From(s, <<"zone", "BUNNY_STORAGE_ZONE", "STORAGE_ZONE">>)
        accessKey == From(s, <<"accessKey", "BUNNY_STORAGE_ACCESS_KEY", "STORAGE_ACCESS_KEY">>)
        region == From(s, <<"region", "BUNNY_STORAGE_REGION", "STORAGE_REGION">>)
    IN  IF "client" \in s.given THEN Built({"client"}, {"client"})
        ELSE IF {} \in {zone, accessKey, region} THEN Refuses
        ELSE Built(accessKey, zone \cup region)

\* A CLOUDINARY_URL holds all three.
Cloudinary(s) ==
    LET cloud == From(s, <<"cloudName", "CLOUDINARY_CLOUD_NAME", "CLOUDINARY_URL">>)
    IN  IF cloud = {} THEN Refuses
        ELSE IF "client" \in s.given THEN Built({"client"}, {"client"})
        ELSE Built(From(s, <<"apiKey", "CLOUDINARY_API_KEY", "CLOUDINARY_URL">>)
                   \cup From(s, <<"apiSecret", "CLOUDINARY_API_SECRET", "CLOUDINARY_URL">>),
                   cloud)

Convex(s) == IF "ctx" \in s.given THEN Built({"ctx"}, {"ctx"}) ELSE Refuses

FirebaseProject(s) ==
    From(s, <<"projectId", "FIREBASE_PROJECT_ID", "GOOGLE_CLOUD_PROJECT", "GCLOUD_PROJECT">>)
FirebaseBucket(s) ==
    FirstOf(<<From(s, <<"bucket", "FIREBASE_STORAGE_BUCKET">>), FirebaseProject(s)>>)
\* A service-account file goes before the credentials that were passed.
FirebaseStorage(s) ==
    LET path == From(s, <<"serviceAccountPath", "GOOGLE_APPLICATION_CREDENTIALS">>)
        pair == Ambient(s, {"FIREBASE_CLIENT_EMAIL", "FIREBASE_PRIVATE_KEY"})
    IN  IF "app" \in s.given
        THEN Built({"app"}, FirstOf(<<From(s, <<"bucket", "FIREBASE_STORAGE_BUCKET">>),
                                      {"app"}>>))
        ELSE IF FirebaseBucket(s) = {} THEN Refuses
        ELSE Built(FirstOf(<<path, s.given \cap {"credentials"}, pair>>), FirebaseBucket(s))

\* An app of the same project and bucket is used again, with the credentials of whoever
\* made it.
FirebaseAfter(first, s) ==
    LET own == FirebaseStorage(s)
        Name(setup) == <<FirebaseProject(setup), FirebaseBucket(setup)>>
    IN  IF own.built /\ "app" \notin s.given \cup first.given /\ Name(first) = Name(s)
        THEN [own EXCEPT !.key = FirebaseStorage(first).key] ELSE own

Gcs(s) ==
    IF "bucket" \notin s.given THEN Refuses
    ELSE Built(FirstOf(<<s.given \cap {"keyFilename", "credentials"},
                         Ambient(s, {"GOOGLE_APPLICATION_CREDENTIALS"})>>), {"bucket"})

NetlifyBlobs(s) ==
    LET own == AllOf(s, {<<"siteID", "NETLIFY_SITE_ID">>,
                         <<"token", "NETLIFY_API_TOKEN", "NETLIFY_BLOBS_TOKEN">>})
        ambient == Ambient(s, {"NETLIFY_BLOBS_CONTEXT"})
    IN  IF "name" \notin s.given \/ own \cup ambient = {} THEN Refuses
        ELSE Built(FirstOf(<<own, ambient>>), {"name"})

\* With no credentials the collection's public rules apply.
PocketBase(s) ==
    LET auth == FirstOf(<<From(s, <<"authToken", "POCKETBASE_AUTH_TOKEN">>),
                          AllOf(s, {<<"adminEmail", "POCKETBASE_ADMIN_EMAIL">>,
                                    <<"adminPassword", "POCKETBASE_ADMIN_PASSWORD">>}),
                          s.given \cap {"client"}>>)
        url == From(s, <<"url", "POCKETBASE_URL">>)
    IN  IF "collection" \notin s.given THEN Refuses
        ELSE IF "client" \in s.given THEN Built(auth, {"client"})
        ELSE IF url = {} THEN Refuses ELSE Built(auth, url)

Supabase(s) ==
    LET url == From(s, <<"url", "SUPABASE_URL", "NEXT_PUBLIC_SUPABASE_URL">>)
        key == From(s, <<"key", "SUPABASE_SERVICE_ROLE_KEY", "SUPABASE_KEY",
                         "NEXT_PUBLIC_SUPABASE_ANON_KEY">>)
    IN  IF "bucket" \notin s.given THEN Refuses
        ELSE IF "client" \in s.given THEN Built({"client"}, {"client"})
        ELSE IF {} \in {url, key} THEN Refuses ELSE Built(key, url)

\* The token names the app.
UploadThing(s) ==
    LET token == From(s, <<"token", "UPLOADTHING_TOKEN">>)
    IN  IF token = {} THEN Refuses ELSE Built(token, token)

\* An OIDC token that was passed is not traded for the token of the environment.
VercelBlob(s) ==
    LET oidc == AllOf(s, {<<"oidcToken", "VERCEL_OIDC_TOKEN">>, <<"storeId", "BLOB_STORE_ID">>})
        Store(key) == Built(key, key)
    IN  IF "token" \in s.given THEN Store({"token"})
        ELSE IF oidc # {} THEN Store(oidc)
        ELSE IF "oidcToken" \in s.given \/ "BLOB_READ_WRITE_TOKEN" \notin s.given THEN Refuses
        ELSE Store({"BLOB_READ_WRITE_TOKEN"})

(***************************************************************************)
(* Drives.                                                                 *)
(***************************************************************************)

\* ccg.subject: the enterprise or the user that client-credentials grants are for.
Box(s) ==
    LET shapes == SetOf(s, {"developerToken", "oauth", "ccg", "jwt"})
    IN  IF "client" \in s.given THEN Built({"client"}, {"client"})
        ELSE IF Cardinality(shapes) > 1 \/ ("ccg" \in shapes /\ "ccg.subject" \notin s.given)
        THEN Refuses
        ELSE IF shapes # {} THEN Built(shapes, shapes)
        ELSE IF "BOX_DEVELOPER_TOKEN" \in s.given
        THEN Built({"BOX_DEVELOPER_TOKEN"}, {"BOX_DEVELOPER_TOKEN"}) ELSE Refuses

Dropbox(s) ==
    LET explicit == SetOf(s, {"refreshToken", "appKey", "appSecret"})
        \* The app's secret is optional.
        Refresh(token, app, secret) ==
            IF {token, app} \subseteq s.given THEN s.given \cap {token, app, secret} ELSE {}
        Account(key) == IF key = {} THEN Refuses ELSE Built(key, key)
    IN  IF "client" \in s.given THEN Account({"client"})
        ELSE IF IsSet(s, "accessToken")
        THEN IF explicit # {} THEN Refuses ELSE Account({"accessToken"})
        ELSE IF explicit # {} THEN Account(Refresh("refreshToken", "appKey", "appSecret"))
        ELSE IF "DROPBOX_ACCESS_TOKEN" \in s.given THEN Account({"DROPBOX_ACCESS_TOKEN"})
        ELSE Account(Refresh("DROPBOX_REFRESH_TOKEN", "DROPBOX_APP_KEY",
                             "DROPBOX_APP_SECRET"))

GoogleDrive(s) ==
    LET explicit == FirstOf(<<s.given \cap {"client"}, s.given \cap {"credentials"},
                              s.given \cap {"keyFilename"}, s.given \cap {"oauth"}>>)
        fromEnv == FirstOf(<<Ambient(s, {"GOOGLE_DRIVE_CLIENT_EMAIL",
                                         "GOOGLE_DRIVE_PRIVATE_KEY"}),
                             s.given \cap {"GOOGLE_DRIVE_KEY_FILE"}>>)
        key == FirstOf(<<explicit, fromEnv>>)
        drive == From(s, <<"driveId", "GOOGLE_DRIVE_ID">>)
    IN  IF key = {} THEN Refuses ELSE Built(key, FirstOf(<<drive, key>>))

OneDriveEnvKey(s) ==
    FirstOf(<<s.given \cap {"ONEDRIVE_ACCESS_TOKEN"},
              Ambient(s, {"ONEDRIVE_TENANT_ID", "ONEDRIVE_CLIENT_ID",
                          "ONEDRIVE_CLIENT_SECRET"})>>)
OneDriveTargets(s) ==
    From(s, <<"driveId", "ONEDRIVE_DRIVE_ID">>) \cup From(s, <<"siteId", "ONEDRIVE_SITE_ID">>)
    \cup From(s, <<"userId", "ONEDRIVE_USER_ID">>)
\* An application without a user has no drive of its own.
OneDrive(s) ==
    LET shapes == SetOf(s, {"clientCredentials", "oauth", "accessToken", "client"})
        key == FirstOf(<<shapes, OneDriveEnvKey(s)>>)
        appOnly == key = {"clientCredentials"} \/ "ONEDRIVE_TENANT_ID" \in key
        targets == OneDriveTargets(s)
    IN  IF key = {} \/ Cardinality(shapes) > 1 \/ Cardinality(targets) > 1
           \/ (targets = {} /\ appOnly)
        THEN Refuses
        ELSE Built(key, FirstOf(<<targets, key>>))

SharePointKey(s) ==
    LET tenant == <<"SHAREPOINT_TENANT_ID", "ONEDRIVE_TENANT_ID">>
        client == <<"SHAREPOINT_CLIENT_ID", "ONEDRIVE_CLIENT_ID">>
        secret == <<"SHAREPOINT_CLIENT_SECRET", "ONEDRIVE_CLIENT_SECRET">>
        token == <<"SHAREPOINT_ACCESS_TOKEN", "ONEDRIVE_ACCESS_TOKEN">>
        explicit == SetOf(s, {"client", "clientCredentials", "oauth", "accessToken"})
    IN  FirstOf(<<explicit \cap {"client"}, explicit \cap {"clientCredentials"},
                  explicit \cap {"oauth"}, explicit, From(s, token),
                  AllOf(s, {tenant, client, secret})>>)
\* Which site: its id, its URL, or the host it is the root of.
SharePointSite(s) ==
    FirstOf(<<From(s, <<"siteId", "SHAREPOINT_SITE_ID">>),
              From(s, <<"siteUrl", "SHAREPOINT_SITE_URL">>),
              From(s, <<"hostname", "SHAREPOINT_HOSTNAME">>)>>)
\* The drive goes to OneDrive as an option; OneDrive still reads its own variables.
SharePoint(s) ==
    LET drive == From(s, <<"driveId", "SHAREPOINT_DRIVE_ID">>)
        library == From(s, <<"documentLibrary", "SHAREPOINT_DOCUMENT_LIBRARY">>)
        site == SharePointSite(s)
        inner == OneDrive(Setup({"client", "driveId"}
                                \cup (s.given \cap {"ONEDRIVE_SITE_ID", "ONEDRIVE_USER_ID"}),
                                {}))
    IN  IF SharePointKey(s) = {} \/ drive \cup site = {} \/ ~ inner.built THEN Refuses
        ELSE Built(SharePointKey(s), IF drive # {} THEN drive ELSE site \cup library)

(***************************************************************************)
(* File systems.                                                           *)
(***************************************************************************)

Fs(s) == IF "root" \in s.given THEN Built({}, {"root"}) ELSE Refuses

\* Without a user the server decides.
Ftp(s) ==
    LET host == From(s, <<"host", "FTP_HOST">>)
    IN  IF "client" \in s.given THEN Built({"client"}, {"client"})
        ELSE IF host = {} THEN Refuses
        ELSE Built(From(s, <<"user", "FTP_USERNAME", "FTP_USER">>)
                   \cup From(s, <<"password", "FTP_PASSWORD">>), host)

Sftp(s) ==
    LET host == From(s, <<"host", "SFTP_HOST">>)
        user == From(s, <<"username", "SFTP_USERNAME">>)
    IN  IF "client" \in s.given THEN Built({"client"}, {"client"})
        ELSE IF {} \in {host, user} THEN Refuses
        ELSE Built(user \cup From(s, <<"password", "SFTP_PASSWORD">>)
                   \cup From(s, <<"privateKey", "SFTP_PRIVATE_KEY">>), host)

Memory(s) == Built({}, {"memory"})

(***************************************************************************)
(* By provider.                                                            *)
(***************************************************************************)

S3Family(slug, s) ==
    CASE slug = "akamai" -> Akamai(s) [] slug = "alibaba" -> Alibaba(s)
      [] slug = "backblaze-b2" -> BackblazeB2(s)
      [] slug = "digitalocean-spaces" -> DigitaloceanSpaces(s)
      [] slug = "exoscale" -> Exoscale(s) [] slug = "filebase" -> Filebase(s)
      [] slug = "hetzner" -> Hetzner(s) [] slug = "ibm-cos" -> IbmCos(s)
      [] slug = "idrive-e2" -> IdriveE2(s) [] slug = "minio" -> Minio(s)
      [] slug = "neon" -> Neon(s) [] slug = "oracle-cloud" -> OracleCloud(s)
      [] slug = "ovhcloud" -> Ovhcloud(s) [] slug = "s3" -> S3(s)
      [] slug = "scaleway" -> Scaleway(s) [] slug = "storj" -> Storj(s)
      [] slug = "tencent" -> Tencent(s) [] slug = "tigris" -> Tigris(s)
      [] slug = "vultr" -> Vultr(s) [] slug = "wasabi" -> Wasabi(s)
      [] slug = "yandex" -> Yandex(s)
Construct(slug, s) ==
    CASE slug \in DOMAIN S3LikeEntries -> S3Family(slug, s)
      [] slug = "appwrite" -> Appwrite(s) [] slug = "azure" -> Azure(s)
      [] slug = "box" -> Box(s) [] slug = "bun-s3" -> BunS3(s)
      [] slug = "bunny-storage" -> BunnyStorage(s) [] slug = "cloudinary" -> Cloudinary(s)
      [] slug = "convex" -> Convex(s) [] slug = "dropbox" -> Dropbox(s)
      [] slug = "firebase-storage" -> FirebaseStorage(s) [] slug = "fs" -> Fs(s)
      [] slug = "ftp" -> Ftp(s) [] slug = "gcs" -> Gcs(s)
      [] slug = "google-drive" -> GoogleDrive(s) [] slug = "memory" -> Memory(s)
      [] slug = "netlify-blobs" -> NetlifyBlobs(s) [] slug = "onedrive" -> OneDrive(s)
      [] slug = "pocketbase" -> PocketBase(s) [] slug = "r2" -> R2(s)
      [] slug = "sftp" -> Sftp(s) [] slug = "sharepoint" -> SharePoint(s)
      [] slug = "supabase" -> Supabase(s) [] slug = "uploadthing" -> UploadThing(s)
      [] slug = "vercel-blob" -> VercelBlob(s)

(***************************************************************************)
(* The command line: the options it builds from its flags and from         *)
(* --config-json.  A flag's value goes before the configuration's.         *)
(***************************************************************************)

\* s3() alone reads the pair as credentials.
WithCredentials(slug, flags) ==
    IF slug \in DOMAIN S3LikeEntries /\ {"accessKeyId", "secretAccessKey"} \subseteq flags
    THEN {"credentials"} ELSE {}
Threaded(slug, flags) ==
    {thread[2] : thread \in {t \in Registry[slug].threads : t[1] \in flags}}
    \cup WithCredentials(slug, flags)
\* provider: --provider, or else FILES_SDK_PROVIDER; "" when there is neither.
PickProvider(provider) == IF provider \in DOMAIN Registry THEN {provider} ELSE {}
LoadFiles(provider, flags, extra, env) ==
    IF PickProvider(provider) = {} THEN Refuses
    ELSE Construct(provider, Setup(Threaded(provider, flags) \cup extra \cup env, {}))

(***************************************************************************)
(* The setups that the assumptions go through.                             *)
(***************************************************************************)

S3LikeOptions == {"accessKeyId", "secretAccessKey", "region", "endpoint"}
\* The options of each adapter that decide one of the three.
Options(slug) ==
    CASE slug = "s3" -> {"region", "endpoint", "credentials"}
      [] slug = "oracle-cloud" -> S3LikeOptions \cup {"namespace"}
      [] slug \in DOMAIN S3LikeEntries \ {"s3", "oracle-cloud"} -> S3LikeOptions
      [] slug = "appwrite" -> {"client", "endpoint", "projectId", "key"}
      [] slug = "azure" -> {"container", "connectionString", "accountName", "accountKey",
                            "credential", "sasToken", "endpoint"}
      [] slug = "box" -> {"client", "developerToken", "oauth", "ccg", "ccg.subject", "jwt"}
      [] slug = "bun-s3" -> S3LikeOptions \cup {"client"}
      [] slug = "bunny-storage" -> {"client", "zone", "accessKey", "region"}
      [] slug = "cloudinary" -> {"client", "cloudName", "apiKey", "apiSecret"}
      [] slug = "convex" -> {"ctx"}
      [] slug = "dropbox" -> {"client", "accessToken", "refreshToken", "appKey", "appSecret"}
      [] slug = "firebase-storage" -> {"app", "bucket", "projectId", "serviceAccountPath",
                                       "credentials"}
      [] slug = "fs" -> {"root"}
      [] slug = "ftp" -> {"client", "host", "user", "password"}
      [] slug = "gcs" -> {"bucket", "keyFilename", "credentials"}
      [] slug = "google-drive" -> {"client", "credentials", "keyFilename", "oauth", "driveId"}
      [] slug = "memory" -> {}
      [] slug = "netlify-blobs" -> {"name", "siteID", "token"}
      [] slug = "onedrive" -> {"client", "clientCredentials", "oauth", "accessToken", "driveId",
                               "siteId", "userId"}
      [] slug = "pocketbase" -> {"collection", "client", "url", "authToken", "adminEmail",
                                 "adminPassword"}
      [] slug = "r2" -> {"binding", "accountId", "accessKeyId", "secretAccessKey"}
      [] slug = "sftp" -> {"client", "host", "username", "password", "privateKey"}
      [] slug = "sharepoint" -> {"client", "clientCredentials", "oauth", "accessToken",
                                 "driveId", "siteId", "siteUrl", "documentLibrary"}
      [] slug = "supabase" -> {"bucket", "client", "url", "key"}
      [] slug = "uploadthing" -> {"token"}
      [] slug = "vercel-blob" -> {"token", "oidcToken", "storeId"}
\* Those that are, or hold, a secret; and those that are a connection made elsewhere.
Secrets == {"accessKey", "accessToken", "accountKey", "adminPassword", "apiSecret",
            "appSecret", "authToken", "ccg", "clientCredentials", "connectionString",
            "credential", "credentials", "developerToken", "jwt", "key", "keyFilename",
            "oauth", "oidcToken", "password", "privateKey", "refreshToken", "sasToken",
            "secretAccessKey", "serviceAccountPath", "token"}
Prebuilt == {"app", "binding", "client", "ctx"}
\* The variables: those of the catalog, and what SharePoint's OneDrive reads besides.
Env(slug) ==
    EnvNames(Catalog[slug])
    \cup (IF slug = "sharepoint" THEN {"ONEDRIVE_SITE_ID", "ONEDRIVE_USER_ID"} ELSE {})

\* At most n of a set.
UpTo(n, S) == UNION {kSubset(k, S) : k \in 0..n}
MaxOptions(slug) == IF slug \in {"oracle-cloud", "pocketbase"} THEN 4 ELSE 3
MaxVariables(slug) == IF slug = "sharepoint" THEN 2 ELSE 3
OptionSets(slug) == UpTo(MaxOptions(slug), Options(slug))
EnvSets(slug) == UpTo(MaxVariables(slug), Env(slug))
\* One of the names of every variable.
NamedOnce(vars) == Choices({ToSet(var) : var \in vars})
Alone(slug, options) == Construct(slug, Setup(options, {}))
Uses(outcome) == outcome.key \cup outcome.at

(***************************************************************************)
(* What the settings have to promise.  The providers named are those that  *)
(* do not keep it.                                                         *)
(***************************************************************************)

\* The catalog tells what it takes: with the options it calls config and one name of every
\* variable of a mode, the adapter is built, and no variable of the mode is there for nothing.
\* The exceptions want an option or a variable the catalog does not list, or lists as
\* optional: a region (Akamai, Backblaze, IBM, Bunny), Oracle's namespace, a collection, the
\* drive of an application (OneDrive), a site (SharePoint).
CatalogSuffices(slug) ==
    LET spec == Catalog[slug]
    IN  \A mode \in IF spec.modes = {} THEN {{}} ELSE spec.modes :
            \A env \in NamedOnce(spec.required \cup mode) :
                LET outcome == Construct(slug, Setup(spec.config \cup env, {}))
                IN  /\ outcome.built
                    /\ \A var \in mode : ToSet(var) \cap Uses(outcome) # {}
ASSUME CatalogAssumption ==
    {slug \in Providers : ~ CatalogSuffices(slug)} =
        {"akamai", "backblaze-b2", "ibm-cos", "bunny-storage", "oracle-cloud", "pocketbase",
         "onedrive", "sharepoint"}

\* So does the command line: the flags it calls required and the same variables are enough.
FlagsSuffice(slug) ==
    LET spec == Catalog[slug]
    IN  \A mode \in IF spec.modes = {} THEN {{}} ELSE spec.modes :
            \A env \in NamedOnce(spec.required \cup mode) :
                LoadFiles(slug, Registry[slug].flags, {}, env).built
ASSUME FlagsAssumption ==
    {slug \in DOMAIN Registry : ~ FlagsSuffice(slug)} =
        {"akamai", "backblaze-b2", "ibm-cos", "bunny-storage", "oracle-cloud", "pocketbase",
         "onedrive", "sharepoint"}

\* A note that names the options of --config-json names enough of them.  Box, Google Drive,
\* OneDrive and SharePoint read theirs as one object, under another name.
HintSuffices(slug) ==
    LoadFiles(slug, Registry[slug].flags, Registry[slug].hint,
              UNION NamedOnce(Catalog[slug].required)).built
ASSUME HintsAssumption ==
    {slug \in DOMAIN Registry : Registry[slug].hint # {} /\ ~ HintSuffices(slug)} =
        {"box", "google-drive", "onedrive", "sharepoint"}

\* A flag whose help names a provider is passed on to it.
FlagsReach(slug) == FlagsPromised[slug] \subseteq {t[1] : t \in Registry[slug].threads}
ASSUME ReachAssumption ==
    {slug \in DOMAIN FlagsPromised : ~ FlagsReach(slug)} = {"backblaze-b2", "supabase"}

\* A key pair given by flags is the key of every S3-compatible provider that has all its
\* other settings, whatever the environment holds.
ASSUME KeyFlagsAssumption ==
    \A slug \in DOMAIN S3LikeEntries : \A env \in EnvSets(slug) :
        LET pair == {"accessKeyId", "secretAccessKey"}
        IN  LoadFiles(slug, pair, {"region", "endpoint", "namespace"}, env).key
            = IF slug = "s3" THEN {"credentials"} ELSE pair

\* No command builds an adapter that lives in another process, or a provider of another name.
ASSUME ExcludedAssumption ==
    /\ Excluded = Providers \ DOMAIN Registry /\ DOMAIN Registry \subseteq Providers
    /\ \A slug \in Excluded \cup {""} : ~ LoadFiles(slug, {}, {}, {}).built

\* The flags that name a provider are enough to use it, without any variable.
FlagsAlone(slug) ==
    LoadFiles(slug, {t[1] : t \in Registry[slug].threads}, {}, {}).built
ASSUME FlagsAloneAssumption ==
    {slug \in DOMAIN FlagsPromised : ~ FlagsAlone(slug)} = {"oracle-cloud"}

\* An option that counts in an empty environment counts in every environment.  A connection
\* string of the environment goes before the account that was passed, a bucket before the one
\* that the project implies, a token before PocketBase's admin, a site before SharePoint's
\* siteUrl; and a target in the environment clashes with the one that was passed to OneDrive.
OptionsPrevail(slug) ==
    \A options \in OptionSets(slug) :
        Alone(slug, options).built =>
            \A env \in EnvSets(slug) :
                LET outcome == Construct(slug, Setup(options \cup env, {}))
                IN  outcome.built
                    /\ Uses(Alone(slug, options)) \cap options \subseteq Uses(outcome)
ASSUME PrevailAssumption ==
    {slug \in Providers : ~ OptionsPrevail(slug)} =
        {"azure", "firebase-storage", "onedrive", "pocketbase", "sharepoint"}

\* No variable stops an adapter that its options are enough for; but for the targets of
\* OneDrive, which SharePoint's adapter reads too.
StaysUsable(slug) ==
    \A options \in OptionSets(slug), env \in EnvSets(slug) :
        Alone(slug, options).built => Construct(slug, Setup(options \cup env, {})).built
ASSUME UsableAssumption ==
    {slug \in Providers : ~ StaysUsable(slug)} = {"onedrive", "sharepoint"}

\* A secret that was passed is not traded for one of the environment.  Azure, Firebase and
\* PocketBase do; Neon and Netlify take half a pair for none.
Kept(slug) ==
    \A options \in OptionSets(slug), env \in EnvSets(slug) :
        LET outcome == Construct(slug, Setup(options \cup env, {}))
        IN  outcome.built /\ options \cap Secrets # {} => outcome.key \cap options # {}
ASSUME KeptAssumption ==
    {slug \in Providers : ~ Kept(slug)} =
        {"azure", "firebase-storage", "neon", "netlify-blobs", "pocketbase"}

\* Every secret is of use; and an adapter uses all of those that it is passed, or refuses.  The
\* adapters named choose one silently.
Useful(slug) == UNION {Alone(slug, options).key : options \in OptionSets(slug)}
Counts(slug) ==
    \A options \in OptionSets(slug) :
        LET outcome == Alone(slug, options)
        IN  outcome.built /\ options \cap Prebuilt = {} =>
                options \cap Secrets \subseteq outcome.key
ASSUME SecretsAssumption ==
    /\ \A slug \in Providers : Options(slug) \cap Secrets \subseteq Useful(slug)
    /\ {slug \in Providers : ~ Counts(slug)} =
           {"azure", "firebase-storage", "google-drive", "neon", "pocketbase", "sharepoint",
            "vercel-blob"}

\* An empty variable counts as one that is not there, unless it is one of several names (a
\* CLOUDINARY_URL stands for three more): it then hides those that come after it.
Hidden(slug) ==
    {v \in Env(slug) : \E options \in OptionSets(slug), env \in UpTo(2, Env(slug)) :
        v \notin env /\ Construct(slug, Setup(options \cup env, {v}))
                        # Construct(slug, Setup(options \cup env, {}))}
ASSUME EmptyAssumption ==
    \A slug \in Providers \ {"cloudinary"} : \A v \in Hidden(slug) :
            \E var \in Variables(Catalog[slug]) : Len(var) > 1 /\ v \in ToSet(var)

\* A provider's keys go to that provider.  An endpoint option that is empty sends those of
\* the adapters that derive their endpoint to Amazon; one that is not there never does.
Stray(slug, empty) ==
    \E options \in OptionSets(slug) :
        LET given == (options \ empty) \cup EnvNames(Catalog[slug])
            outcome == Construct(slug, Setup(given, empty))
        IN  outcome.built /\ "amazon" \in outcome.at
ASSUME HomeAssumption ==
    LET presets == DOMAIN S3LikeEntries \ {"s3"}
    IN  /\ \A slug \in presets : ~ Stray(slug, {})
        /\ {slug \in presets : ~ Stray(slug, {"endpoint"})} =
               {"filebase", "idrive-e2", "minio", "neon", "storj", "tigris", "yandex"}

\* A key is never half of one source and half of another.  The adapters named pair an option
\* with what the environment holds of another account.
OneSource(slug) ==
    \A options \in OptionSets(slug), env \in EnvSets(slug) :
        LET key == Construct(slug, Setup(options \cup env, {})).key
        IN  key \subseteq options \/ key \subseteq env
ASSUME SourceAssumption ==
    {slug \in Providers : OneSource(slug)} =
        {"appwrite", "box", "bunny-storage", "convex", "dropbox", "firebase-storage",
         "fs", "gcs", "google-drive", "memory", "neon", "onedrive", "s3", "sharepoint",
         "supabase", "uploadthing"}

\* Azure signs URLs as the account it sends requests to, unless a connection string meets an
\* account name or key that was passed.
ASSUME SignerAssumption ==
    \A options \in OptionSets("azure"), env \in EnvSets("azure") :
        LET s == Setup(options \cup env, {})
        IN  Azure(s).built /\ AzureSigner(s) # {} =>
                \/ AzureSigner(s) \subseteq Azure(s).key
                \/ AzureString(s) # {} /\ options \cap {"accountName", "accountKey"} # {}

\* A credential that was passed to a second Firebase adapter of a project is not used when
\* the first one has another.
ASSUME SharedAppAssumption ==
    LET first == Setup({"projectId", "serviceAccountPath"}, {})
        second == Setup({"projectId", "credentials"}, {})
    IN  FirebaseAfter(first, second).key = {"serviceAccountPath"}
================================================================================
