------------------------------ MODULE MCDevice ------------------------------
\* Instances of Device for TLC.
EXTENDS Device

\* What the modem sends: nothing about the context, news of its end, news of its
\* activation.
QuietUrcs  == {"other"}
DropUrcs   == {"activation_failed", "deactivated", "other"}
UpUrcs     == {"activated", "other"}

\* Applications: the typical loop; one that switches off, resets and uses the
\* service; one that drives the modem by hand; two that reset it in one way.
LoopCalls    == {"data_service"}
PowerCalls   == {"data_service", "hard_reset", "soft_power_off", "hard_power_off",
                 "service_send_at", "service_handle_urc"}
ManualCalls  == ApiCalls \ {"service_send_at", "service_handle_urc"}
ResetCalls   == {"data_service", "hard_reset"}
FactoryCalls == {"data_service", "factory_reset"}
=============================================================================
