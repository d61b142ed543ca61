-------------------------------- MODULE Catalog --------------------------------
(***************************************************************************)
(* What the package says of the settings its adapters need: the catalog of *)
(* environment variables, the flags the command line asks for and passes   *)
(* on, the options its hints name.  Settings.tla holds what the adapters   *)
(* do with them.                                                           *)
(*                                                                         *)
(* An option or a variable is its name; a variable with aliases is the     *)
(* sequence of its names.                                                  *)
(***************************************************************************)
EXTENDS Sequences, FiniteSets, TLC
LOCAL INSTANCE SequencesExt

\* config: the options that have to be passed.  modes: each a set of variables, one of
\* which sets has to be in the environment.  chain: the names that only the provider's own
\* SDK reads.
EnvSpec(config, required, modes, optional, chain) ==
    [config |-> config, required |-> required, modes |-> modes, optional |-> optional,
     chain |-> chain]

S3CompatibleEnv(id, secret, config) == EnvSpec(config, {}, {{<<id>>, <<secret>>}}, {}, {})

AkamaiEnv == S3CompatibleEnv("AKAMAI_ACCESS_KEY_ID", "AKAMAI_SECRET_ACCESS_KEY",
                             {"bucket", "endpoint"})
AlibabaEnv == S3CompatibleEnv("ALIBABA_ACCESS_KEY_ID", "ALIBABA_ACCESS_KEY_SECRET",
                              {"bucket", "region"})
BackblazeEnv == S3CompatibleEnv("B2_APPLICATION_KEY_ID", "B2_APPLICATION_KEY", {"bucket"})
SpacesEnv == S3CompatibleEnv("DO_SPACES_KEY", "DO_SPACES_SECRET", {"bucket", "region"})
ExoscaleEnv == S3CompatibleEnv("EXOSCALE_API_KEY", "EXOSCALE_API_SECRET",
                               {"bucket", "region"})
FilebaseEnv == S3CompatibleEnv("FILEBASE_ACCESS_KEY_ID", "FILEBASE_SECRET_ACCESS_KEY",
                               {"bucket"})
HetznerEnv == S3CompatibleEnv("HCLOUD_ACCESS_KEY_ID", "HCLOUD_SECRET_ACCESS_KEY",
                              {"bucket", "region"})
IbmEnv == S3CompatibleEnv("IBM_COS_ACCESS_KEY_ID", "IBM_COS_SECRET_ACCESS_KEY",
                          {"bucket", "endpoint"})
IdriveEnv == S3CompatibleEnv("IDRIVE_E2_ACCESS_KEY_ID", "IDRIVE_E2_SECRET_ACCESS_KEY",
                             {"bucket", "endpoint"})
MinioEnv == S3CompatibleEnv("MINIO_ACCESS_KEY_ID", "MINIO_SECRET_ACCESS_KEY",
                            {"bucket", "endpoint"})
OracleEnv == S3CompatibleEnv("OCI_ACCESS_KEY_ID", "OCI_SECRET_ACCESS_KEY",
                             {"bucket", "region", "endpoint"})
OvhEnv == S3CompatibleEnv("OVH_ACCESS_KEY_ID", "OVH_SECRET_ACCESS_KEY", {"bucket", "region"})
ScalewayEnv == S3CompatibleEnv("SCW_ACCESS_KEY", "SCW_SECRET_KEY", {"bucket", "region"})
StorjEnv == S3CompatibleEnv("STORJ_ACCESS_KEY_ID", "STORJ_SECRET_ACCESS_KEY", {"bucket"})
TencentEnv == S3CompatibleEnv("TENCENT_SECRET_ID", "TENCENT_SECRET_KEY",
                              {"bucket", "region"})
TigrisEnv == S3CompatibleEnv("TIGRIS_ACCESS_KEY_ID", "TIGRIS_SECRET_ACCESS_KEY", {"bucket"})
VultrEnv == S3CompatibleEnv("VULTR_ACCESS_KEY_ID", "VULTR_SECRET_ACCESS_KEY",
                            {"bucket", "region"})
WasabiEnv == S3CompatibleEnv("WASABI_ACCESS_KEY_ID", "WASABI_SECRET_ACCESS_KEY",
                             {"bucket", "region"})
YandexEnv == S3CompatibleEnv("YANDEX_ACCESS_KEY_ID", "YANDEX_SECRET_ACCESS_KEY", {"bucket"})

AppwriteEnv ==
    EnvSpec({"bucket"}, {<<"APPWRITE_PROJECT_ID", "NEXT_PUBLIC_APPWRITE_PROJECT_ID">>},
         {{<<"APPWRITE_API_KEY", "APPWRITE_KEY">>}},
         {<<"APPWRITE_ENDPOINT", "NEXT_PUBLIC_APPWRITE_ENDPOINT">>}, {})
AzureEnv ==
    LET account == <<"AZURE_STORAGE_ACCOUNT_NAME", "AZURE_STORAGE_ACCOUNT">>
    IN  EnvSpec({"container"}, {},
             {{<<"AZURE_STORAGE_CONNECTION_STRING">>},
              {account, <<"AZURE_STORAGE_ACCOUNT_KEY", "AZURE_STORAGE_KEY">>},
              {account, <<"AZURE_STORAGE_SAS_TOKEN">>}, {account}}, {}, {})
BoxEnv == EnvSpec({}, {}, {{<<"BOX_DEVELOPER_TOKEN">>}}, {}, {})
BunEnv ==
    LET keys == {<<"AWS_ACCESS_KEY_ID", "S3_ACCESS_KEY_ID">>,
                 <<"AWS_SECRET_ACCESS_KEY", "S3_SECRET_ACCESS_KEY">>}
        tuning == {<<"AWS_REGION", "S3_REGION">>, <<"AWS_BUCKET", "S3_BUCKET">>,
                   <<"AWS_SESSION_TOKEN", "S3_SESSION_TOKEN">>}
    IN  EnvSpec({"bucket"}, {}, {keys}, tuning, UNION {ToSet(var) : var \in keys \cup tuning})
BunnyEnv ==
    EnvSpec({}, {<<"BUNNY_STORAGE_ZONE", "STORAGE_ZONE">>},
         {{<<"BUNNY_STORAGE_ACCESS_KEY", "STORAGE_ACCESS_KEY">>}},
         {<<"BUNNY_STORAGE_REGION", "STORAGE_REGION">>}, {})
CloudinaryEnv ==
    EnvSpec({}, {}, {{<<"CLOUDINARY_URL">>},
                  {<<"CLOUDINARY_CLOUD_NAME">>, <<"CLOUDINARY_API_KEY">>,
                   <<"CLOUDINARY_API_SECRET">>}}, {}, {})
ConvexEnv == EnvSpec({"ctx"}, {}, {}, {}, {})
DropboxEnv ==
    EnvSpec({}, {}, {{<<"DROPBOX_ACCESS_TOKEN">>},
                  {<<"DROPBOX_REFRESH_TOKEN">>, <<"DROPBOX_APP_KEY">>,
                   <<"DROPBOX_APP_SECRET">>}}, {}, {})
FirebaseEnv ==
    EnvSpec({}, {<<"FIREBASE_STORAGE_BUCKET">>},
         {{<<"GOOGLE_APPLICATION_CREDENTIALS">>},
          {<<"FIREBASE_CLIENT_EMAIL">>, <<"FIREBASE_PRIVATE_KEY">>}},
         {<<"FIREBASE_PROJECT_ID", "GOOGLE_CLOUD_PROJECT", "GCLOUD_PROJECT">>}, {})
FsEnv == EnvSpec({"root"}, {}, {}, {}, {})
FtpEnv ==
    EnvSpec({"host", "port", "root"}, {<<"FTP_HOST">>},
         {{<<"FTP_USERNAME", "FTP_USER">>, <<"FTP_PASSWORD">>}},
         {<<"FTP_PORT">>, <<"FTP_SECURE">>}, {})
GcsEnv ==
    EnvSpec({"bucket"}, {}, {{<<"GOOGLE_APPLICATION_CREDENTIALS">>}},
         {<<"GOOGLE_CLOUD_PROJECT", "GCLOUD_PROJECT">>}, {"GOOGLE_APPLICATION_CREDENTIALS"})
DriveEnv ==
    EnvSpec({}, {}, {{<<"GOOGLE_DRIVE_CLIENT_EMAIL">>, <<"GOOGLE_DRIVE_PRIVATE_KEY">>},
                  {<<"GOOGLE_DRIVE_KEY_FILE">>}},
         {<<"GOOGLE_DRIVE_SUBJECT">>, <<"GOOGLE_DRIVE_ID">>,
          <<"GOOGLE_DRIVE_ROOT_FOLDER_ID">>}, {})
MemoryEnv == EnvSpec({}, {}, {}, {}, {})
NeonEnv ==
    LET keys == {<<"AWS_ACCESS_KEY_ID">>, <<"AWS_SECRET_ACCESS_KEY">>}
    IN  EnvSpec({"bucket"}, {<<"AWS_ENDPOINT_URL_S3">>}, {keys},
             {<<"AWS_REGION", "NEON_STORAGE_REGION">>}, UNION {ToSet(var) : var \in keys})
NetlifyEnv ==
    EnvSpec({"name"}, {}, {{<<"NETLIFY_SITE_ID">>, <<"NETLIFY_API_TOKEN", "NETLIFY_BLOBS_TOKEN">>},
                        {<<"NETLIFY_BLOBS_CONTEXT">>}}, {}, {"NETLIFY_BLOBS_CONTEXT"})
OneDriveEnv ==
    EnvSpec({}, {}, {{<<"ONEDRIVE_TENANT_ID">>, <<"ONEDRIVE_CLIENT_ID">>,
                   <<"ONEDRIVE_CLIENT_SECRET">>}, {<<"ONEDRIVE_ACCESS_TOKEN">>}},
         {<<"ONEDRIVE_DRIVE_ID">>, <<"ONEDRIVE_SITE_ID">>, <<"ONEDRIVE_USER_ID">>}, {})
PocketBaseEnv ==
    EnvSpec({}, {<<"POCKETBASE_URL">>},
         {{<<"POCKETBASE_AUTH_TOKEN">>},
          {<<"POCKETBASE_ADMIN_EMAIL">>, <<"POCKETBASE_ADMIN_PASSWORD">>}}, {}, {})
R2Env ==
    EnvSpec({"bucket"}, {}, {{<<"R2_ACCOUNT_ID">>, <<"R2_ACCESS_KEY_ID">>,
                           <<"R2_SECRET_ACCESS_KEY">>}}, {}, {})
S3Env ==
    LET keys == {<<"AWS_ACCESS_KEY_ID">>, <<"AWS_SECRET_ACCESS_KEY">>}
        session == {<<"AWS_SESSION_TOKEN">>}
    IN  EnvSpec({"bucket"}, {<<"AWS_REGION", "AWS_DEFAULT_REGION">>}, {keys}, session,
             UNION {ToSet(var) : var \in keys \cup session})
SftpEnv ==
    EnvSpec({"host", "port", "root"}, {<<"SFTP_HOST">>},
         {{<<"SFTP_USERNAME">>, <<"SFTP_PASSWORD">>},
          {<<"SFTP_USERNAME">>, <<"SFTP_PRIVATE_KEY">>}},
         {<<"SFTP_PASSPHRASE">>, <<"SFTP_PORT">>}, {})
SharePointEnv ==
    EnvSpec({}, {}, {{<<"SHAREPOINT_TENANT_ID", "ONEDRIVE_TENANT_ID">>,
                   <<"SHAREPOINT_CLIENT_ID", "ONEDRIVE_CLIENT_ID">>,
                   <<"SHAREPOINT_CLIENT_SECRET", "ONEDRIVE_CLIENT_SECRET">>},
                  {<<"SHAREPOINT_ACCESS_TOKEN", "ONEDRIVE_ACCESS_TOKEN">>}},
         {<<"SHAREPOINT_SITE_ID">>, <<"SHAREPOINT_SITE_URL">>, <<"SHAREPOINT_HOSTNAME">>,
          <<"SHAREPOINT_DRIVE_ID">>, <<"SHAREPOINT_DOCUMENT_LIBRARY">>}, {})
SupabaseEnv ==
    EnvSpec({"bucket"}, {<<"SUPABASE_URL", "NEXT_PUBLIC_SUPABASE_URL">>},
         {{<<"SUPABASE_SERVICE_ROLE_KEY", "SUPABASE_KEY", "NEXT_PUBLIC_SUPABASE_ANON_KEY">>}},
         {}, {})
UploadThingEnv == EnvSpec({}, {}, {{<<"UPLOADTHING_TOKEN">>}}, {}, {})
VercelEnv == EnvSpec({}, {}, {{<<"BLOB_READ_WRITE_TOKEN">>},
                           {<<"VERCEL_OIDC_TOKEN">>, <<"BLOB_STORE_ID">>}}, {}, {})

(***************************************************************************)
(* The command line.                                                       *)
(***************************************************************************)

\* flags: those the provider's entry calls required.  threads: the flags that reach the
\* adapter, and as which option.  hint: the options the entry's note tells to configure.
Entry(flags, threads, hint) == [flags |-> flags, threads |-> threads, hint |-> hint]
AsThemselves(flags) == {<<flag, flag>> : flag \in flags}
\* Everything else has to come through --config-json.
ExtraOnly(hint) == Entry({}, {}, hint)

S3LikeThreads == AsThemselves({"accessKeyId", "bucket", "defaultUrlExpiresIn", "endpoint",
                               "forcePathStyle", "publicBaseUrl", "region",
                               "secretAccessKey", "sessionToken"})
S3Like(flags) == Entry(flags, S3LikeThreads, {})

AzureFlags == Entry({"container"},
                    AsThemselves({"accountKey", "accountName", "connectionString", "container",
                                  "defaultUrlExpiresIn", "publicBaseUrl"}), {})
AppwriteFlags == ExtraOnly({"endpoint", "projectId", "apiKey", "bucketId"})
BoxFlags == ExtraOnly({"clientId", "clientSecret", "refreshToken"})
BunnyFlags == ExtraOnly({"zone", "accessKey", "region", "publicBaseUrl"})
CloudinaryFlags == ExtraOnly({"cloudName", "apiKey", "apiSecret"})
DropboxFlags == Entry({}, {<<"token", "accessToken">>}, {})
FirebaseFlags == Entry({}, AsThemselves({"bucket", "defaultUrlExpiresIn", "projectId",
                                         "publicBaseUrl"})
                           \cup {<<"keyFilename", "serviceAccountPath">>}, {})
FsFlags == Entry({"root"}, AsThemselves({"defaultUrlExpiresIn", "root", "urlBaseUrl"}), {})
FtpFlags == Entry({}, AsThemselves({"publicBaseUrl"}),
                  {"host", "port", "user", "password", "secure", "root"})
GcsFlags == Entry({"bucket"}, AsThemselves({"bucket", "defaultUrlExpiresIn", "keyFilename",
                                            "projectId", "publicBaseUrl"}), {})
DriveFlags == ExtraOnly({"clientId", "clientSecret", "refreshToken", "folderId"})
NetlifyFlags == Entry({"storeName"}, {<<"storeName", "name">>, <<"siteId", "siteID">>,
                                      <<"token", "token">>}, {})
OneDriveFlags == ExtraOnly({"clientId", "clientSecret", "tenantId"})
PocketBaseFlags == Entry({}, AsThemselves({"publicBaseUrl", "url"}),
                         {"collection", "adminEmail", "adminPassword", "authToken", "keyField",
                          "fileField"})
R2Flags == Entry({"bucket"}, AsThemselves({"accessKeyId", "accountId", "bucket",
                                           "defaultUrlExpiresIn", "publicBaseUrl",
                                           "secretAccessKey"}), {})
SftpFlags == Entry({}, AsThemselves({"publicBaseUrl"}),
                   {"host", "port", "username", "password", "privateKey", "root"})
SharePointFlags == ExtraOnly({"clientId", "clientSecret", "tenantId", "siteId", "driveId"})
SupabaseFlags == Entry({"bucket"}, AsThemselves({"bucket", "defaultUrlExpiresIn", "url"})
                                   \cup {<<"serviceRoleKey", "key">>}, {})
UploadThingFlags == Entry({}, AsThemselves({"token"}), {"token"})
VercelFlags == Entry({}, AsThemselves({"access", "token"}), {})

(***************************************************************************)
(* Both, by provider.                                                      *)
(***************************************************************************)

Catalog ==
    ("akamai" :> AkamaiEnv) @@ ("alibaba" :> AlibabaEnv) @@ ("appwrite" :> AppwriteEnv)
    @@ ("azure" :> AzureEnv) @@ ("backblaze-b2" :> BackblazeEnv) @@ ("box" :> BoxEnv)
    @@ ("bun-s3" :> BunEnv) @@ ("bunny-storage" :> BunnyEnv)
    @@ ("cloudinary" :> CloudinaryEnv) @@ ("convex" :> ConvexEnv)
    @@ ("digitalocean-spaces" :> SpacesEnv) @@ ("dropbox" :> DropboxEnv)
    @@ ("exoscale" :> ExoscaleEnv) @@ ("filebase" :> FilebaseEnv)
    @@ ("firebase-storage" :> FirebaseEnv) @@ ("fs" :> FsEnv) @@ ("ftp" :> FtpEnv)
    @@ ("gcs" :> GcsEnv) @@ ("google-drive" :> DriveEnv) @@ ("hetzner" :> HetznerEnv)
    @@ ("ibm-cos" :> IbmEnv) @@ ("idrive-e2" :> IdriveEnv) @@ ("memory" :> MemoryEnv)
    @@ ("minio" :> MinioEnv) @@ ("neon" :> NeonEnv) @@ ("netlify-blobs" :> NetlifyEnv)
    @@ ("onedrive" :> OneDriveEnv) @@ ("oracle-cloud" :> OracleEnv)
    @@ ("ovhcloud" :> OvhEnv) @@ ("pocketbase" :> PocketBaseEnv) @@ ("r2" :> R2Env)
    @@ ("s3" :> S3Env) @@ ("scaleway" :> ScalewayEnv) @@ ("sftp" :> SftpEnv)
    @@ ("sharepoint" :> SharePointEnv) @@ ("storj" :> StorjEnv)
    @@ ("supabase" :> SupabaseEnv) @@ ("tencent" :> TencentEnv) @@ ("tigris" :> TigrisEnv)
    @@ ("uploadthing" :> UploadThingEnv) @@ ("vercel-blob" :> VercelEnv)
    @@ ("vultr" :> VultrEnv) @@ ("wasabi" :> WasabiEnv) @@ ("yandex" :> YandexEnv)

\* The S3 family, with the flags each entry calls required.
S3LikeEntries ==
    ("akamai" :> S3Like({"bucket", "endpoint"})) @@ ("alibaba" :> S3Like({"bucket", "region"}))
    @@ ("backblaze-b2" :> S3Like({"bucket"}))
    @@ ("digitalocean-spaces" :> S3Like({"bucket", "region"}))
    @@ ("exoscale" :> S3Like({"bucket", "region"})) @@ ("filebase" :> S3Like({"bucket"}))
    @@ ("hetzner" :> S3Like({"bucket", "region"}))
    @@ ("ibm-cos" :> S3Like({"bucket", "endpoint"}))
    @@ ("idrive-e2" :> S3Like({"bucket", "endpoint"}))
    @@ ("minio" :> S3Like({"bucket", "endpoint"})) @@ ("neon" :> S3Like({"bucket"}))
    @@ ("oracle-cloud" :> S3Like({"bucket", "region", "endpoint"}))
    @@ ("ovhcloud" :> S3Like({"bucket", "region"})) @@ ("s3" :> S3Like({"bucket"}))
    @@ ("scaleway" :> S3Like({"bucket", "region"})) @@ ("storj" :> S3Like({"bucket"}))
    @@ ("tencent" :> S3Like({"bucket", "region"})) @@ ("tigris" :> S3Like({"bucket"}))
    @@ ("vultr" :> S3Like({"bucket", "region"})) @@ ("wasabi" :> S3Like({"bucket", "region"}))
    @@ ("yandex" :> S3Like({"bucket"}))
OtherEntries ==
    ("appwrite" :> AppwriteFlags) @@ ("azure" :> AzureFlags) @@ ("box" :> BoxFlags)
    @@ ("bunny-storage" :> BunnyFlags) @@ ("cloudinary" :> CloudinaryFlags)
    @@ ("dropbox" :> DropboxFlags) @@ ("firebase-storage" :> FirebaseFlags)
    @@ ("fs" :> FsFlags) @@ ("ftp" :> FtpFlags) @@ ("gcs" :> GcsFlags)
    @@ ("google-drive" :> DriveFlags) @@ ("netlify-blobs" :> NetlifyFlags)
    @@ ("onedrive" :> OneDriveFlags) @@ ("pocketbase" :> PocketBaseFlags) @@ ("r2" :> R2Flags)
    @@ ("sftp" :> SftpFlags) @@ ("sharepoint" :> SharePointFlags)
    @@ ("supabase" :> SupabaseFlags) @@ ("uploadthing" :> UploadThingFlags)
    @@ ("vercel-blob" :> VercelFlags)
Registry == S3LikeEntries @@ OtherEntries

Providers == DOMAIN Catalog
Excluded == {"bun-s3", "convex", "memory"}

\* The flags whose help names the provider, or its family.
FlagsPromised ==
    LET s3 == {"bucket", "region", "endpoint", "forcePathStyle", "accessKeyId",
               "secretAccessKey", "sessionToken", "publicBaseUrl"}
        others ==
            ("azure" :> {"accountName", "accountKey", "container", "connectionString",
                         "publicBaseUrl"})
            @@ ("fs" :> {"root", "urlBaseUrl"}) @@ ("vercel-blob" :> {"token", "access"})
            @@ ("netlify-blobs" :> {"token", "siteId", "storeName"})
            @@ ("uploadthing" :> {"token"}) @@ ("dropbox" :> {"token"})
            @@ ("r2" :> {"accountId", "publicBaseUrl"})
            @@ ("supabase" :> {"bucket", "url", "serviceRoleKey", "publicBaseUrl"})
            @@ ("backblaze-b2" :> s3 \cup {"applicationKeyId", "applicationKey"})
            @@ ("gcs" :> {"bucket", "projectId", "keyFilename", "publicBaseUrl"})
    IN  others @@ [slug \in DOMAIN S3LikeEntries |-> s3]

\* listEnvVars(): every variable of an entry, once by its first name.
Variables(spec) == spec.required \cup UNION spec.modes \cup spec.optional
EnvNames(spec) == UNION {ToSet(var) : var \in Variables(spec)}
================================================================================
