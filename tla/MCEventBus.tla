----------------------------- MODULE MCEventBus -----------------------------
EXTENDS EventBusProperties
=============================================================================
