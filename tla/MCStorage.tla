------------------------------ MODULE MCStorage ------------------------------
(* An instance of Storage for TLC: the methods in groups that share rows.   *)
EXTENDS Storage

MCWorkloads ==
    {{"create_license", "get_license", "get_license_by_key",
      "set_license_status"},
     {"create_activation", "list_activations", "count_activations",
      "delete_activation"},
     {"create_api_key", "get_api_key_by_prefix", "revoke_api_key",
      "touch_api_key_last_used"},
     {"create_user", "get_user", "get_user_by_email"},
     {"create_organization", "get_organization", "create_product",
      "get_product", "append_audit_log"}}
=============================================================================
