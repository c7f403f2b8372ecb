--------------------------- MODULE SizeProfiles ---------------------------
(***************************************************************************)
(* The size templates of internal/controller/size: four profiles, one file *)
(* per profile and processor architecture, selected by the build.  Each    *)
(* file repeats the same sizes for every channel of a service (ibm-iam,    *)
(* ibm-im and its v4.x channels, the mongodb operators, the two            *)
(* common-service-db clusters, the UI operators), so a profile is here one *)
(* row per container:                                                      *)
(*   <<replicas or instances (0 if the template sets none),                *)
(*     cpu request, cpu limit in m, memory request, memory limit in Mi>>.  *)
(* Ephemeral storage, max_connections, shared_buffers and the profile name *)
(* of apicatalogmanager are left out.                                      *)
(***************************************************************************)
EXTENDS Naturals, Sequences

StorageComponents ==
    <<
      "certManagerCAInjector", "certManagerController", "certManagerWebhook", "mongoDB",
      "mongoMetrics", "commonServiceDb">>

IdentityComponents ==
    <<
      "authAudit", "authService", "clientRegistration", "identityManager",
      "identityProvider", "oidcclientwatcher", "papAudit", "papService",
      "policycontroller", "policydecisionAudit", "policydecision", "secretwatcher",
      "securityonboarding", "iamOnboarding">>

PlatformComponents ==
    <<
      "managementIngress", "ingress", "defaultBackend", "kubectl",
      "IBMLicensing", "databaseContainer", "receiverContainer", "commonWebUI",
      "apiAudit", "platformApi", "memcached", "healthService",
      "fluentd", "grafanaConfig", "dashboardConfig", "routerConfig",
      "keycloakDb", "keycloak", "keycloakPod">>

Components == StorageComponents \o IdentityComponents \o PlatformComponents

StarterSetAmd64Storage ==
    <<
      <<0,20,100,410,520>>, <<0,20,80,230,530>>, <<0,30,60,40,100>>, <<1,500,1000,640,640>>,
      <<1,100,1000,300,350>>, <<1,75,200,256,512>>>>

StarterSetAmd64Identity ==
    <<
      <<1,10,20,20,40>>, <<1,600,1000,650,1090>>, <<1,20,1000,50,50>>, <<1,260,1000,240,410>>,
      <<1,570,1000,250,420>>, <<1,20,1000,34,256>>, <<1,10,20,20,40>>, <<1,30,1000,190,380>>,
      <<1,20,1000,30,60>>, <<1,10,20,20,40>>, <<1,70,1000,30,50>>, <<1,20,1000,40,145>>,
      <<1,20,1000,50,50>>, <<1,20,1000,64,1024>>>>

StarterSetAmd64Platform ==
    <<
      <<1,70,1000,70,170>>, <<1,100,1000,110,350>>, <<1,10,20,20,50>>, <<0,30,30,150,150>>,
      <<0,100,200,430,850>>, <<0,200,300,256,300>>, <<0,200,300,256,384>>, <<1,130,1000,256,440>>,
      <<1,20,25,30,50>>, <<1,20,25,30,50>>, <<1,20,200,50,100>>, <<1,20,200,100,100>>,
      <<0,20,50,20,150>>, <<0,20,150,40,120>>, <<0,20,20,30,80>>, <<0,20,50,20,50>>,
      <<2,200,200,512,512>>, <<1,1000,1000,1024,1024>>, <<1,1000,1000,1024,1024>>>>

SmallAmd64Storage ==
    <<
      <<0,20,100,410,520>>, <<0,20,80,230,530>>, <<0,30,60,40,100>>, <<3,500,1000,640,640>>,
      <<3,100,1000,300,350>>, <<2,75,200,256,768>>>>

SmallAmd64Identity ==
    <<
      <<1,10,20,20,40>>, <<1,600,1000,650,1090>>, <<1,20,1000,50,50>>, <<1,260,1000,240,410>>,
      <<1,570,1000,250,420>>, <<1,20,1000,34,256>>, <<1,10,20,20,40>>, <<1,30,1000,190,380>>,
      <<1,20,1000,30,60>>, <<1,10,20,20,40>>, <<1,70,1000,30,50>>, <<1,20,1000,40,145>>,
      <<1,20,1000,50,50>>, <<1,20,1000,64,1024>>>>

SmallAmd64Platform ==
    <<
      <<1,70,1000,70,170>>, <<1,100,1000,110,350>>, <<1,10,20,20,50>>, <<0,30,30,150,150>>,
      <<0,100,200,430,850>>, <<0,200,300,256,300>>, <<0,200,300,256,384>>, <<1,130,1000,256,440>>,
      <<1,20,25,30,50>>, <<1,20,25,30,50>>, <<1,20,200,50,100>>, <<1,20,200,100,100>>,
      <<0,30,60,20,150>>, <<0,20,150,40,120>>, <<0,20,20,30,80>>, <<0,20,50,20,50>>,
      <<2,200,200,768,768>>, <<2,1000,1000,1024,1024>>, <<2,1000,1000,1024,1024>>>>

MediumAmd64Storage ==
    <<
      <<0,30,100,500,1000>>, <<0,20,80,510,1010>>, <<0,30,60,40,100>>, <<3,500,2000,2048,2048>>,
      <<3,100,1000,300,350>>, <<2,150,500,384,1024>>>>

MediumAmd64Identity ==
    <<
      <<2,10,20,20,40>>, <<2,600,1000,540,1090>>, <<2,20,1000,50,50>>, <<2,260,1000,240,1260>>,
      <<2,570,1000,250,920>>, <<1,20,1000,40,325>>, <<2,10,20,20,40>>, <<2,30,1000,190,600>>,
      <<1,20,1000,40,80>>, <<2,10,20,20,40>>, <<2,70,1000,30,160>>, <<1,20,1000,50,220>>,
      <<1,20,1000,50,50>>, <<1,20,1000,64,1024>>>>

MediumAmd64Platform ==
    <<
      <<2,70,1000,70,760>>, <<2,100,1000,120,860>>, <<1,20,50,20,100>>, <<0,30,50,150,150>>,
      <<0,200,300,430,850>>, <<0,200,300,256,300>>, <<0,200,300,256,384>>, <<2,450,1000,480,660>>,
      <<1,20,25,30,50>>, <<1,20,25,30,60>>, <<1,20,200,50,100>>, <<1,20,200,125,250>>,
      <<0,35,65,20,200>>, <<0,20,150,60,230>>, <<0,25,70,140,170>>, <<0,20,70,20,80>>,
      <<2,500,500,1024,1024>>, <<2,1000,1000,1024,1024>>, <<2,1000,1000,1024,1024>>>>

LargeAmd64Storage ==
    <<
      <<0,30,100,500,1000>>, <<0,20,80,510,1010>>, <<0,30,60,40,100>>, <<3,500,3000,3072,3072>>,
      <<3,100,1000,300,350>>, <<2,225,750,600,1650>>>>

\* One limit mistyped: 109Mi for authService.
LargeAmd64IdentityTypo == [SmallAmd64Identity EXCEPT ![2][5] = 109]

LargeAmd64Identity ==
    <<
      <<3,10,20,20,40>>, <<3,600,2000,540,1090>>, <<3,20,1000,50,50>>, <<3,260,1000,240,1270>>,
      <<3,570,1000,250,920>>, <<1,20,1000,40,325>>, <<3,10,20,20,40>>, <<3,30,1000,190,600>>,
      <<1,20,1000,40,80>>, <<3,10,20,20,40>>, <<3,70,1000,30,420>>, <<1,20,1000,50,220>>,
      <<1,20,1000,50,50>>, <<1,20,1000,64,1024>>>>

LargeAmd64Platform ==
    <<
      <<3,70,1000,256,1024>>, <<3,100,1000,256,1024>>, <<1,20,50,100,128>>, <<0,30,100,150,256>>,
      <<0,200,300,510,1020>>, <<0,200,300,256,300>>, <<0,200,300,256,384>>, <<3,450,1000,490,660>>,
      <<1,20,25,30,50>>, <<1,20,25,30,60>>, <<1,20,200,50,100>>, <<1,30,200,160,250>>,
      <<0,60,100,100,200>>, <<0,20,150,200,230>>, <<0,25,70,145,170>>, <<0,20,70,20,80>>,
      <<3,750,750,1500,1500>>, <<3,1000,1000,1024,1024>>, <<3,1000,1000,1024,1024>>>>

StarterSetPpc64leStorage ==
    <<
      <<0,30,150,350,550>>, <<0,70,450,390,530>>, <<0,50,100,90,350>>, <<1,500,1000,700,700>>,
      <<1,100,1000,300,350>>, <<1,75,200,256,512>>>>

StarterSetPpc64leIdentity ==
    <<
      <<1,20,1000,50,300>>, <<1,140,2000,525,950>>, <<1,20,1000,50,300>>, <<1,50,1000,120,350>>,
      <<1,80,1000,130,250>>, <<1,30,1000,50,256>>, <<1,20,1000,50,70>>, <<1,50,1000,160,650>>,
      <<1,20,1000,50,300>>, <<1,20,1000,50,70>>, <<1,20,1000,50,100>>, <<1,30,1000,120,250>>,
      <<1,20,1000,50,50>>, <<1,20,1000,64,1024>>>>

StarterSetPpc64lePlatform ==
    <<
      <<1,50,150,100,400>>, <<1,100,150,140,600>>, <<1,20,20,50,100>>, <<0,30,50,150,250>>,
      <<0,100,300,220,500>>, <<0,200,300,256,300>>, <<0,200,300,256,384>>, <<1,150,1000,256,800>>,
      <<1,25,25,50,300>>, <<1,25,25,50,100>>, <<1,20,200,50,100>>, <<1,20,200,50,150>>,
      <<0,25,50,100,300>>, <<0,20,300,65,250>>, <<0,5,300,50,250>>, <<0,10,50,50,250>>,
      <<2,200,200,512,512>>, <<1,1000,1000,1024,1024>>, <<1,1000,1000,1024,1024>>>>

SmallPpc64leStorage ==
    <<
      <<0,30,150,350,550>>, <<0,70,450,390,530>>, <<0,50,100,90,350>>, <<3,500,1000,700,700>>,
      <<3,100,1000,300,350>>, <<2,75,200,256,512>>>>

SmallPpc64leIdentity ==
    <<
      <<1,20,1000,50,300>>, <<1,140,2000,525,950>>, <<1,20,1000,50,300>>, <<1,50,1000,120,350>>,
      <<1,80,1000,130,250>>, <<1,30,1000,50,256>>, <<1,20,1000,50,70>>, <<1,50,1000,160,650>>,
      <<1,20,1000,50,300>>, <<1,20,1000,50,70>>, <<1,20,1000,50,100>>, <<1,30,1000,120,250>>,
      <<1,20,1000,50,50>>, <<1,20,1000,64,1024>>>>

SmallPpc64lePlatform ==
    <<
      <<1,50,150,100,400>>, <<1,100,150,140,600>>, <<1,20,20,50,100>>, <<0,30,50,150,250>>,
      <<0,100,300,220,500>>, <<0,200,300,256,300>>, <<0,200,300,256,384>>, <<1,150,1000,256,800>>,
      <<1,25,25,50,300>>, <<1,25,25,50,100>>, <<1,20,200,50,100>>, <<1,20,200,50,150>>,
      <<0,25,50,100,300>>, <<0,20,300,65,250>>, <<0,5,300,50,250>>, <<0,10,50,50,250>>,
      <<2,200,200,768,768>>, <<2,1000,1000,1024,1024>>, <<2,1000,1000,1024,1024>>>>

MediumPpc64leStorage ==
    <<
      <<0,40,150,581,814>>, <<0,70,450,673,782>>, <<0,50,142,90,420>>, <<3,500,2000,2048,2048>>,
      <<3,100,1000,300,350>>, <<2,150,500,384,1024>>>>

MediumPpc64leIdentity ==
    <<
      <<2,50,1000,50,300>>, <<2,230,2000,695,1193>>, <<2,20,1000,50,300>>, <<2,100,1000,140,639>>,
      <<2,320,1000,250,438>>, <<1,30,1000,67,325>>, <<2,50,1000,50,70>>, <<2,50,1000,195,943>>,
      <<1,20,1000,75,450>>, <<2,20,1000,50,70>>, <<2,20,1000,50,169>>, <<1,30,1000,220,336>>,
      <<1,20,1000,50,50>>, <<1,20,1000,64,1024>>>>

MediumPpc64lePlatform ==
    <<
      <<2,200,1000,256,1024>>, <<2,200,1000,256,1024>>, <<1,30,50,64,150>>, <<0,50,100,150,350>>,
      <<0,300,400,230,543>>, <<0,200,300,256,300>>, <<0,200,300,256,384>>, <<2,300,1000,376,1225>>,
      <<1,25,25,50,300>>, <<1,25,25,67,117>>, <<1,20,200,50,100>>, <<1,20,200,125,250>>,
      <<0,35,50,128,375>>, <<0,25,300,87,419>>, <<0,25,515,93,412>>, <<0,25,70,65,344>>,
      <<2,500,500,1024,1024>>, <<2,1000,1000,1024,1024>>, <<2,1000,1000,1024,1024>>>>

LargePpc64leStorage ==
    <<
      <<0,40,200,581,814>>, <<0,70,550,673,782>>, <<0,50,150,90,450>>, <<3,500,3000,3072,3072>>,
      <<3,100,1000,300,350>>, <<2,384,1500,768,3072>>>>

LargePpc64leIdentity ==
    <<
      <<3,75,1000,50,400>>, <<3,725,3000,695,1201>>, <<3,20,1000,50,300>>, <<3,340,1000,385,645>>,
      <<3,410,1000,335,480>>, <<1,30,1000,67,325>>, <<3,75,1000,50,70>>, <<3,50,1000,195,943>>,
      <<1,20,1000,75,450>>, <<3,30,1000,50,84>>, <<3,195,1000,270,420>>, <<1,30,1000,220,336>>,
      <<1,20,1000,50,50>>, <<1,20,1000,64,1024>>>>

LargePpc64lePlatform ==
    <<
      <<3,200,1000,442,1288>>, <<3,200,1000,512,1188>>, <<1,30,50,116,183>>, <<0,50,150,150,495>>,
      <<0,300,400,270,634>>, <<0,200,300,256,300>>, <<0,200,300,256,384>>, <<3,300,1000,384,1225>>,
      <<1,25,25,50,300>>, <<1,25,25,67,117>>, <<1,20,200,50,100>>, <<1,27,200,153,250>>,
      <<0,59,75,231,375>>, <<0,30,300,195,419>>, <<0,25,515,145,412>>, <<0,25,70,65,344>>,
      <<3,750,750,1500,1500>>, <<3,1000,1000,1024,1024>>, <<3,1000,1000,1024,1024>>>>

StarterSetS390xStorage ==
    <<
      <<0,30,100,350,520>>, <<0,70,110,390,530>>, <<0,50,60,90,100>>, <<1,500,1000,700,700>>,
      <<1,100,1000,300,350>>, <<1,75,200,256,512>>>>

StarterSetS390xIdentity ==
    <<
      <<1,20,1000,50,50>>, <<1,140,1000,525,650>>, <<1,20,1000,50,50>>, <<1,50,1000,120,220>>,
      <<1,80,1000,130,230>>, <<1,30,1000,50,256>>, <<1,20,1000,50,50>>, <<1,50,1000,160,330>>,
      <<1,20,1000,50,50>>, <<1,20,1000,50,50>>, <<1,20,1000,50,50>>, <<1,30,1000,120,145>>,
      <<1,20,1000,50,50>>, <<1,20,1000,64,1024>>>>

StarterSetS390xPlatform ==
    <<
      <<1,50,50,100,170>>, <<1,100,100,140,350>>, <<1,20,20,50,50>>, <<0,30,30,150,150>>,
      <<0,100,200,220,320>>, <<0,200,300,256,300>>, <<0,200,300,256,384>>, <<1,150,1000,256,440>>,
      <<1,25,25,50,50>>, <<1,25,25,50,50>>, <<1,20,200,50,100>>, <<1,20,200,50,100>>,
      <<0,25,35,100,150>>, <<0,20,150,65,100>>, <<0,5,20,50,80>>, <<0,10,50,50,50>>,
      <<2,200,200,512,512>>, <<1,1000,1000,1024,1024>>, <<1,1000,1000,1024,1024>>>>

SmallS390xStorage ==
    <<
      <<0,30,100,350,520>>, <<0,70,110,390,530>>, <<0,50,60,90,100>>, <<3,500,1000,700,700>>,
      <<3,100,1000,300,350>>, <<2,75,200,256,512>>>>

SmallS390xIdentity ==
    <<
      <<1,20,1000,50,50>>, <<1,140,1000,525,650>>, <<1,20,1000,50,50>>, <<1,50,1000,120,220>>,
      <<1,80,1000,130,230>>, <<1,30,1000,50,256>>, <<1,20,1000,50,50>>, <<1,50,1000,160,330>>,
      <<1,20,1000,50,50>>, <<1,20,1000,50,50>>, <<1,20,1000,50,50>>, <<1,30,1000,120,145>>,
      <<1,20,1000,50,50>>, <<1,20,1000,64,1024>>>>

SmallS390xPlatform ==
    <<
      <<1,50,50,100,170>>, <<1,100,100,140,350>>, <<1,20,20,50,50>>, <<0,30,30,150,150>>,
      <<0,100,200,220,320>>, <<0,200,300,256,300>>, <<0,200,300,256,384>>, <<1,150,1000,256,440>>,
      <<1,25,25,50,50>>, <<1,25,25,50,50>>, <<1,20,200,50,100>>, <<1,20,200,50,100>>,
      <<0,25,35,100,150>>, <<0,20,150,65,100>>, <<0,5,20,50,80>>, <<0,10,50,50,50>>,
      <<2,200,200,768,768>>, <<2,1000,1000,1024,1024>>, <<2,1000,1000,1024,1024>>>>

MediumS390xStorage ==
    <<
      <<0,40,100,581,770>>, <<0,70,110,673,782>>, <<0,50,60,90,100>>, <<3,500,2000,2048,2048>>,
      <<3,100,1000,300,350>>, <<2,150,500,384,1024>>>>

MediumS390xIdentity ==
    <<
      <<2,50,1000,50,50>>, <<2,230,1000,695,745>>, <<2,20,1000,50,50>>, <<2,100,1000,140,525>>,
      <<2,320,1000,250,355>>, <<1,30,1000,67,325>>, <<2,50,1000,50,50>>, <<2,50,1000,195,600>>,
      <<1,20,1000,75,75>>, <<2,20,1000,50,50>>, <<2,20,1000,50,85>>, <<1,30,1000,220,220>>,
      <<1,20,1000,50,50>>, <<1,20,1000,64,1024>>>>

MediumS390xPlatform ==
    <<
      <<2,200,1000,256,1024>>, <<2,200,1000,256,1024>>, <<1,30,50,64,128>>, <<0,50,100,150,350>>,
      <<0,200,300,230,350>>, <<0,200,300,256,300>>, <<0,200,300,256,384>>, <<2,300,1000,376,430>>,
      <<1,25,25,50,50>>, <<1,25,25,67,100>>, <<1,20,200,50,100>>, <<1,20,200,125,250>>,
      <<0,35,50,128,200>>, <<0,25,150,87,148>>, <<0,25,70,93,123>>, <<0,25,70,65,80>>,
      <<2,500,500,1024,1024>>, <<2,1000,1000,1024,1024>>, <<2,1000,1000,1024,1024>>>>

LargeS390xStorage ==
    <<
      <<0,40,100,581,770>>, <<0,70,110,673,782>>, <<0,50,60,90,100>>, <<3,500,3000,3072,3072>>,
      <<3,100,1000,300,350>>, <<2,384,1500,768,3072>>>>

LargeS390xIdentity ==
    <<
      <<3,75,1000,50,50>>, <<3,725,2000,695,745>>, <<3,20,1000,50,50>>, <<3,340,1000,385,530>>,
      <<3,410,1000,335,480>>, <<1,30,1000,67,325>>, <<3,75,1000,50,50>>, <<3,50,1000,195,600>>,
      <<1,20,1000,75,75>>, <<3,30,1000,50,60>>, <<3,195,1000,270,420>>, <<1,30,1000,220,220>>,
      <<1,20,1000,50,50>>, <<1,20,1000,64,1024>>>>

LargeS390xPlatform ==
    <<
      <<3,200,1000,452,1288>>, <<3,200,1000,512,1188>>, <<1,30,50,116,156>>, <<0,50,150,150,495>>,
      <<0,200,300,270,409>>, <<0,200,300,256,300>>, <<0,200,300,256,384>>, <<3,300,1000,384,430>>,
      <<1,25,25,50,50>>, <<1,25,25,67,100>>, <<1,20,200,50,100>>, <<1,27,200,153,250>>,
      <<0,59,75,231,300>>, <<0,30,150,195,230>>, <<0,25,70,145,145>>, <<0,25,70,65,80>>,
      <<3,750,750,1500,1500>>, <<3,1000,1000,1024,1024>>, <<3,1000,1000,1024,1024>>>>

Arches == {"amd64", "ppc64le", "s390x"}
Profiles == {"starterset", "small", "medium", "large"}

\* The template that the operator built for an architecture has for a profile.
SizeTemplate(arch, profile) ==
    CASE profile = "starterset" ->
           (CASE arch = "amd64" -> StarterSetAmd64Storage \o StarterSetAmd64Identity \o StarterSetAmd64Platform
              [] arch = "ppc64le" -> StarterSetPpc64leStorage \o StarterSetPpc64leIdentity \o StarterSetPpc64lePlatform
              [] arch = "s390x" -> StarterSetS390xStorage \o StarterSetS390xIdentity \o StarterSetS390xPlatform)
      [] profile = "small" ->
           (CASE arch = "amd64" -> SmallAmd64Storage \o SmallAmd64Identity \o SmallAmd64Platform
              [] arch = "ppc64le" -> SmallPpc64leStorage \o SmallPpc64leIdentity \o SmallPpc64lePlatform
              [] arch = "s390x" -> SmallS390xStorage \o SmallS390xIdentity \o SmallS390xPlatform)
      [] profile = "medium" ->
           (CASE arch = "amd64" -> MediumAmd64Storage \o MediumAmd64Identity \o MediumAmd64Platform
              [] arch = "ppc64le" -> MediumPpc64leStorage \o MediumPpc64leIdentity \o MediumPpc64lePlatform
              [] arch = "s390x" -> MediumS390xStorage \o MediumS390xIdentity \o MediumS390xPlatform)
      [] profile = "large" ->
           (CASE arch = "amd64" -> LargeAmd64Storage \o LargeAmd64Identity \o LargeAmd64Platform
              [] arch = "ppc64le" -> LargePpc64leStorage \o LargePpc64leIdentity \o LargePpc64lePlatform
              [] arch = "s390x" -> LargeS390xStorage \o LargeS390xIdentity \o LargeS390xPlatform)
=============================================================================
