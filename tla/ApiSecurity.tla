--------------------------- MODULE ApiSecurity ----------------------------
(***************************************************************************)
(* What the methods of client.security, license and ssl send: a definition *)
(* for each method, and the methods of each namespace.  See ApiOps.        *)
(***************************************************************************)
EXTENDS ApiOps

-----------------------------------------------------------------------------
securityAuthenticateApi == Method({}, <<GET(<<"_security", "_authenticate">>)>>, "none")

securityChangePasswordApi ==
  Method({"body"},
         <<PUT(<<"_security", "user", ":username", "_password">>),
           PUT(<<"_security", "user", "_password">>)>>, "body")

securityClearApiKeyCacheApi ==
  Method({":ids"}, <<POST(<<"_security", "api_key", ":ids", "_clear_cache">>)>>, "body")

securityClearCachedPrivilegesApi ==
  Method({":application"},
         <<POST(<<"_security", "privilege", ":application", "_clear_cache">>)>>, "body")

securityClearCachedRealmsApi ==
  Method({":realms"}, <<POST(<<"_security", "realm", ":realms", "_clear_cache">>)>>, "body")

securityClearCachedRolesApi ==
  Method({":name"}, <<POST(<<"_security", "role", ":name", "_clear_cache">>)>>, "body")

securityCreateApiKeyApi == Method({"body"}, <<PUT(<<"_security", "api_key">>)>>, "body")

securityDeletePrivilegesApi ==
  Validated({":application", ":name"}, {Needs(":name", {":application"})},
            <<DELETE(<<"_security", "privilege", ":application", ":name">>)>>, "body")

securityDeleteRoleApi == Method({":name"}, <<DELETE(<<"_security", "role", ":name">>)>>, "body")

securityDeleteRoleMappingApi ==
  Method({":name"}, <<DELETE(<<"_security", "role_mapping", ":name">>)>>, "body")

securityDeleteUserApi ==
  Method({":username"}, <<DELETE(<<"_security", "user", ":username">>)>>, "body")

securityDisableUserApi ==
  Method({":username"}, <<PUT(<<"_security", "user", ":username", "_disable">>)>>, "body")

securityEnableUserApi ==
  Method({":username"}, <<PUT(<<"_security", "user", ":username", "_enable">>)>>, "body")

securityGetApiKeyApi == Method({}, <<GET(<<"_security", "api_key">>)>>, "none")

securityGetBuiltinPrivilegesApi ==
  Method({}, <<GET(<<"_security", "privilege", "_builtin">>)>>, "none")

securityGetPrivilegesApi ==
  Validated({}, {Needs(":name", {":application"})},
            <<GET(<<"_security", "privilege", ":application", ":name">>),
              GET(<<"_security", "privilege", ":application">>),
              GET(<<"_security", "privilege">>)>>, "none")

securityGetRoleApi ==
  Method({}, <<GET(<<"_security", "role", ":name">>), GET(<<"_security", "role">>)>>, "none")

securityGetRoleMappingApi ==
  Method({},
         <<GET(<<"_security", "role_mapping", ":name">>),
           GET(<<"_security", "role_mapping">>)>>, "none")

securityGetTokenApi == Method({"body"}, <<POST(<<"_security", "oauth2", "token">>)>>, "body")

securityGetUserApi ==
  Method({}, <<GET(<<"_security", "user", ":username">>), GET(<<"_security", "user">>)>>, "none")

securityGetUserPrivilegesApi == Method({}, <<GET(<<"_security", "user", "_privileges">>)>>, "none")

securityGrantApiKeyApi == Method({"body"}, <<POST(<<"_security", "api_key", "grant">>)>>, "body")

securityHasPrivilegesApi ==
  Method({"body"},
         <<GETorPOST(<<"_security", "user", ":user", "_has_privileges">>),
           GETorPOST(<<"_security", "user", "_has_privileges">>)>>, "body")

securityInvalidateApiKeyApi == Method({"body"}, <<DELETE(<<"_security", "api_key">>)>>, "body")

securityInvalidateTokenApi ==
  Method({"body"}, <<DELETE(<<"_security", "oauth2", "token">>)>>, "body")

securityPutPrivilegesApi == Method({"body"}, <<PUT(<<"_security", "privilege">>)>>, "body")

securityPutRoleApi == Method({":name", "body"}, <<PUT(<<"_security", "role", ":name">>)>>, "body")

securityPutRoleMappingApi ==
  Method({":name", "body"}, <<PUT(<<"_security", "role_mapping", ":name">>)>>, "body")

securityPutUserApi ==
  Method({":username", "body"}, <<PUT(<<"_security", "user", ":username">>)>>, "body")

SecurityApi ==
  {securityAuthenticateApi, securityChangePasswordApi, securityClearApiKeyCacheApi,
   securityClearCachedPrivilegesApi, securityClearCachedRealmsApi, securityClearCachedRolesApi,
   securityCreateApiKeyApi, securityDeletePrivilegesApi, securityDeleteRoleApi,
   securityDeleteRoleMappingApi, securityDeleteUserApi, securityDisableUserApi,
   securityEnableUserApi, securityGetApiKeyApi, securityGetBuiltinPrivilegesApi,
   securityGetPrivilegesApi, securityGetRoleApi, securityGetRoleMappingApi, securityGetTokenApi,
   securityGetUserApi, securityGetUserPrivilegesApi, securityGrantApiKeyApi,
   securityHasPrivilegesApi, securityInvalidateApiKeyApi, securityInvalidateTokenApi,
   securityPutPrivilegesApi, securityPutRoleApi, securityPutRoleMappingApi, securityPutUserApi}

-----------------------------------------------------------------------------
licenseDeleteApi == Method({}, <<DELETE(<<"_license">>)>>, "body")

licenseGetApi == Method({}, <<GET(<<"_license">>)>>, "none")

licenseGetBasicStatusApi == Method({}, <<GET(<<"_license", "basic_status">>)>>, "none")

licenseGetTrialStatusApi == Method({}, <<GET(<<"_license", "trial_status">>)>>, "none")

licensePostApi == Method({}, <<PUT(<<"_license">>)>>, "body")

licensePostStartBasicApi == Method({}, <<POST(<<"_license", "start_basic">>)>>, "body")

licensePostStartTrialApi == Method({}, <<POST(<<"_license", "start_trial">>)>>, "body")

LicenseApi ==
  {licenseDeleteApi, licenseGetApi, licenseGetBasicStatusApi, licenseGetTrialStatusApi,
   licensePostApi, licensePostStartBasicApi, licensePostStartTrialApi}

-----------------------------------------------------------------------------
sslCertificatesApi == Method({}, <<GET(<<"_ssl", "certificates">>)>>, "none")

SslApi ==
  {sslCertificatesApi}

=============================================================================
